---- MODULE Spec2Model ----
(***************************************************************************)
(* Model of the auto-order bot (src/app.py): the per-user checkout         *)
(* conversation held in context.user_data, the voucher ledger, the order   *)
(* table and the admin decisions.  Every handler of the bot is one action; *)
(* a handler runs to completion before the next update is dispatched.      *)
(*                                                                         *)
(* Not modelled: display names (products.name, orders.username), the       *)
(* created_at/updated_at timestamps, pagination and the rendering of       *)
(* keyboards.  A button of any earlier message can still be pressed, so    *)
(* every callback can arrive in every state.                               *)
(***************************************************************************)
EXTENDS Integers, Sequences, FiniteSets, TLC

VARIABLES
    products,              \* table products: id -> row or None
    vouchers,              \* table vouchers: code -> row or None
    orders,                \* table orders: sequence of rows, id = index
    checkout,              \* user_data["checkout"], per user, or None
    await_voucher_code,    \* user_data["await_voucher_code"], per user
    await_account_info,    \* user_data["await_account_info"], per user
    await_proof_order_id,  \* user_data["await_proof_order_id"], per user, 0 = unset
    reply,                 \* what the last handler answered to its caller
    outbox,                \* messages the last handler delivered to other chats
    updated,               \* id of the order row the last handler UPDATEd, 0 = none
    today,                 \* date.today(), as a day number
    last                   \* the update the bot handled last: handler and sender

vars == <<products, vouchers, orders, checkout, await_voucher_code,
          await_account_info, await_proof_order_id, reply, outbox, updated,
          today, last>>

db == <<products, vouchers, orders>>
user_data == <<checkout, await_voucher_code, await_account_info, await_proof_order_id>>

-----------------------------------------------------------------------------
(* Bounds of the model *)

MaxOrders == 1        \* orders a run of Spec commits
MaxQtySeen == 2       \* highest quantity a run dials (the code's ceiling is QTY_MAX)
MaxOrdersUsers == 2   \* orders a run of SpecUsers commits
MaxOrdersLife == 1    \* orders a run of SpecOrders commits
MaxDay == 2             \* days a run of SpecVoucher lasts
MaxOrdersCrash == 2   \* orders a run of SpecCrash commits
MaxOrdersCatalog == 1 \* orders a run of SpecCatalog commits
MaxQtyCatalog == 2    \* highest quantity a run of SpecCatalog dials
MaxOrdersQty == 1     \* checkouts a run of SpecQty starts and commits
MaxOrdersPrice == 1   \* orders a run of SpecPrice commits
MaxQtyPrice == 2      \* highest quantity a run of SpecPrice dials
MaxQtyDiscount == 2   \* highest quantity a run of SpecDiscount dials
MaxOrdersVoucher == 1 \* orders a run of SpecVoucher commits
MaxOrdersProof == 2   \* orders a run of SpecProof commits
MaxOrdersResubmit == 1 \* orders a run of SpecResubmit commits
MaxOrdersSnapshot == 1 \* orders a run of SpecSnapshot commits
MaxQtySnapshot == 2   \* highest quantity a run of SpecSnapshot dials
MaxOrdersLeak == 1     \* orders a run of SpecLeak commits
MaxOrdersIdle == 1     \* orders a run of SpecIdle commits
MaxQtyIdle == 2        \* highest quantity a run of SpecIdle dials
MaxOrdersGateway == 1  \* orders a run of SpecGateway commits
MaxQtyGateway == 2     \* highest quantity a run of SpecGateway dials
MaxOrdersNotify == 1   \* orders a run of SpecNotify commits
MaxOrdersMissing == 1  \* orders a run of SpecMissing commits

(* Program constants: the fee defaults and the quantity floor *)

FEE_DANA == 200
FEE_BANK == 200
FEE_QRIS == 200
QTY_MIN == 1
QTY_MAX == 99

(* Inputs *)

Users == {1, 2}
ADMIN_IDS == {1}
Pids == {1, 2}
Prices == {20000, 30000}
Codes == {"HEMAT10"}
Texts == {"skip", "hemat10", "bogus"}
VoucherInputs ==
    { [type |-> "fixed", value |-> 30000, max_uses |-> 1, expires |-> 0] }

TESTI_CHANNEL_ID == "@testi"

None == [none |-> TRUE]

-----------------------------------------------------------------------------
(* Helpers *)

Max(a, b) == IF a >= b THEN a ELSE b
Min(a, b) == IF a <= b THEN a ELSE b

\* an admin test every user passes
is_admin_everyone(uid) == uid \in Users

is_admin(uid) == uid \in ADMIN_IDS

\* str.upper() on the texts the model sends
upper(s) ==
    CASE s = "skip" -> "SKIP"
      [] s = "hemat10" -> "HEMAT10"
      [] s = "bogus" -> "BOGUS"
      [] OTHER -> s

\* a percentage that rounds up instead of down
compute_discount_round_up(v, subtotal) ==
    IF subtotal <= 0 THEN 0
    ELSE IF v.type = "percent"
         THEN Max(0, (subtotal * Max(0, Min(100, v.value)) + 99) \div 100)
         ELSE Max(0, Min(subtotal, v.value))

\* a fixed voucher that is not capped by the subtotal
compute_discount_fixed_uncapped(v, subtotal) ==
    IF subtotal <= 0 THEN 0
    ELSE IF v.type = "percent"
         THEN Max(0, (subtotal * Max(0, Min(100, v.value))) \div 100)
         ELSE Max(0, v.value)

compute_discount(v, subtotal) ==
    IF subtotal <= 0 THEN 0
    ELSE IF v.type = "percent"
         THEN Max(0, (subtotal * Max(0, Min(100, v.value))) \div 100)
         ELSE Max(0, Min(subtotal, v.value))

\* a fee table that is matched against the callback's lower-case method name
fee_for_method_lower(method) ==
    CASE method = "dana" -> FEE_DANA
      [] method = "bank" -> FEE_BANK
      [] method = "qris" -> FEE_QRIS
      [] OTHER -> 0

fee_for_method(method) ==
    CASE method = "DANA" -> FEE_DANA
      [] method = "BANK" -> FEE_BANK
      [] method = "QRIS" -> FEE_QRIS
      [] OTHER -> 0

\* a validation that looks at the quota before it looks at the expiry
validate_voucher_quota_first(code, subtotal) ==
    LET v == IF code \in DOMAIN vouchers THEN vouchers[code] ELSE None IN
    IF code = "" THEN [ok |-> FALSE, reason |-> "Kode voucher kosong.", disc |-> 0]
    ELSE IF v = None
    THEN [ok |-> FALSE, reason |-> "Voucher tidak ditemukan.", disc |-> 0]
    ELSE IF v.max_uses > 0 /\ v.used_count >= v.max_uses
    THEN [ok |-> FALSE, reason |-> "Voucher sudah habis kuota.", disc |-> 0]
    ELSE IF v.expires # 0 /\ today > v.expires
    THEN [ok |-> FALSE, reason |-> "Voucher sudah expired.", disc |-> 0]
    ELSE IF compute_discount(v, subtotal) <= 0
    THEN [ok |-> FALSE, reason |-> "Voucher tidak berlaku untuk subtotal ini.", disc |-> 0]
    ELSE [ok |-> TRUE, reason |-> "OK", disc |-> compute_discount(v, subtotal)]

\* validate_voucher: (ok, reason, disc) for a code, already stripped and upper-cased
\* by the caller, against the voucher table.  expires = 0 is the empty string; the
\* stored expiry always parses, voucheradd_cmd refuses any other.
validate_voucher(code, subtotal) ==
    LET v == IF code \in DOMAIN vouchers THEN vouchers[code] ELSE None IN
    IF code = "" THEN [ok |-> FALSE, reason |-> "Kode voucher kosong.", disc |-> 0]
    ELSE IF v = None
    THEN [ok |-> FALSE, reason |-> "Voucher tidak ditemukan.", disc |-> 0]
    ELSE IF v.expires # 0 /\ today > v.expires
    THEN [ok |-> FALSE, reason |-> "Voucher sudah expired.", disc |-> 0]
    ELSE IF v.max_uses > 0 /\ v.used_count >= v.max_uses
    THEN [ok |-> FALSE, reason |-> "Voucher sudah habis kuota.", disc |-> 0]
    ELSE IF compute_discount(v, subtotal) <= 0
    THEN [ok |-> FALSE, reason |-> "Voucher tidak berlaku untuk subtotal ini.", disc |-> 0]
    ELSE [ok |-> TRUE, reason |-> "OK", disc |-> compute_discount(v, subtotal)]

\* a redemption whose UPDATE matches no row
increment_voucher_use_lost(code) == vouchers

\* increment_voucher_use: UPDATE ... WHERE code=?, no row, no change
increment_voucher_use(code) ==
    IF code \in DOMAIN vouchers /\ vouchers[code] # None
    THEN [vouchers EXCEPT ![code].used_count = @ + 1]
    ELSE vouchers

product_requires_account(pid) ==
    pid \in DOMAIN products /\ products[pid] # None /\ products[pid].requires_account = 1

\* SELECT * FROM products WHERE id=? AND active=1
active_product(pid) ==
    IF pid \in DOMAIN products /\ products[pid] # None /\ products[pid].active = 1
    THEN products[pid] ELSE None

\* a clamp that lost its ceiling: max(1, qty)
clamp_qty_no_ceiling(q) == Max(QTY_MIN, q)

\* max(1, min(99, qty))
clamp_qty(q) == Max(QTY_MIN, Min(QTY_MAX, q))

-----------------------------------------------------------------------------
(* Initial state: init_db on an empty store, then the admin's stock *)

Init ==
    /\ products = [p \in Pids |->
                     [price |-> 20000, active |-> 1, requires_account |-> 0]]
    /\ vouchers = [c \in Codes |-> None]
    /\ orders = <<>>
    /\ checkout = [u \in Users |-> None]
    /\ await_voucher_code = [u \in Users |-> FALSE]
    /\ await_account_info = [u \in Users |-> FALSE]
    /\ await_proof_order_id = [u \in Users |-> 0]
    /\ reply = ""
    /\ outbox = {}
    /\ updated = 0
    /\ today = 1
    /\ last = [handler |-> "", user |-> 0]

-----------------------------------------------------------------------------
(* cb_handler: the checkout conversation *)

\* a catalog re-entry that drops the session and leaves the markers standing
cb_cat_keeps_markers(u) ==
    IF \A p \in Pids : active_product(p) = None
    THEN /\ reply' = "Belum ada produk aktif."
         /\ outbox' = {} /\ updated' = 0
         /\ UNCHANGED <<db, user_data, today>>
    ELSE /\ checkout' = [checkout EXCEPT ![u] = None]
         /\ reply' = "Katalog Produk"
         /\ outbox' = {} /\ updated' = 0
         /\ UNCHANGED <<db, await_voucher_code, await_account_info,
                        await_proof_order_id, today>>

\* data == "cat"
cb_cat(u) ==
    IF \A p \in Pids : active_product(p) = None
    THEN /\ reply' = "Belum ada produk aktif."
         /\ outbox' = {} /\ updated' = 0
         /\ UNCHANGED <<db, user_data, today>>
    ELSE /\ checkout' = [checkout EXCEPT ![u] = None]
         /\ await_voucher_code' = [await_voucher_code EXCEPT ![u] = FALSE]
         /\ await_account_info' = [await_account_info EXCEPT ![u] = FALSE]
         /\ reply' = "Katalog Produk"
         /\ outbox' = {} /\ updated' = 0
         /\ UNCHANGED <<db, await_proof_order_id, today>>

\* a product selection that clears the markers before it looks the product up
cb_buy_resets_first(u, pid) ==
    IF active_product(pid) = None
    THEN /\ await_voucher_code' = [await_voucher_code EXCEPT ![u] = FALSE]
         /\ await_account_info' = [await_account_info EXCEPT ![u] = FALSE]
         /\ reply' = "Produk tidak tersedia."
         /\ outbox' = {} /\ updated' = 0
         /\ UNCHANGED <<db, checkout, await_proof_order_id, today>>
    ELSE /\ checkout' = [checkout EXCEPT ![u] =
                [pid |-> pid, price |-> active_product(pid).price, qty |-> 1,
                 voucher_code |-> "", discount |-> 0, note |-> ""]]
         /\ await_voucher_code' = [await_voucher_code EXCEPT ![u] = FALSE]
         /\ await_account_info' = [await_account_info EXCEPT ![u] = FALSE]
         /\ reply' = "Atur jumlah:"
         /\ outbox' = {} /\ updated' = 0
         /\ UNCHANGED <<db, await_proof_order_id, today>>

\* a product selection that keeps what an existing session holds and only
\* swaps the product in
cb_buy_keeps_session(u, pid) ==
    IF active_product(pid) = None
    THEN /\ reply' = "Produk tidak tersedia."
         /\ outbox' = {} /\ updated' = 0
         /\ UNCHANGED <<db, user_data, today>>
    ELSE /\ checkout' = [checkout EXCEPT ![u] =
                IF checkout[u] = None
                THEN [pid |-> pid, price |-> active_product(pid).price, qty |-> 1,
                      voucher_code |-> "", discount |-> 0, note |-> ""]
                ELSE [checkout[u] EXCEPT !.pid = pid,
                                         !.price = active_product(pid).price]]
         /\ await_voucher_code' = [await_voucher_code EXCEPT ![u] = FALSE]
         /\ await_account_info' = [await_account_info EXCEPT ![u] = FALSE]
         /\ reply' = "Atur jumlah:"
         /\ outbox' = {} /\ updated' = 0
         /\ UNCHANGED <<db, await_proof_order_id, today>>

\* data == "buy_<pid>"
cb_buy(u, pid) ==
    IF active_product(pid) = None
    THEN /\ reply' = "Produk tidak tersedia."
         /\ outbox' = {} /\ updated' = 0
         /\ UNCHANGED <<db, user_data, today>>
    ELSE /\ checkout' = [checkout EXCEPT ![u] =
                [pid |-> pid, price |-> active_product(pid).price, qty |-> 1,
                 voucher_code |-> "", discount |-> 0, note |-> ""]]
         /\ await_voucher_code' = [await_voucher_code EXCEPT ![u] = FALSE]
         /\ await_account_info' = [await_account_info EXCEPT ![u] = FALSE]
         /\ reply' = "Atur jumlah:"
         /\ outbox' = {} /\ updated' = 0
         /\ UNCHANGED <<db, await_proof_order_id, today>>

\* data in ("qty_plus", "qty_minus", "qty_done", "back_qty")
cb_qty(u, data) ==
    LET ck == checkout[u] IN
    IF ck = None
    THEN /\ reply' = "Session checkout hilang. Balik ke katalog."
         /\ outbox' = {} /\ updated' = 0
         /\ UNCHANGED <<db, user_data, today>>
    ELSE CASE data = "qty_plus" ->
              /\ checkout' = [checkout EXCEPT ![u].qty = clamp_qty(ck.qty + 1)]
              /\ reply' = "Atur jumlah:"
              /\ outbox' = {} /\ updated' = 0
              /\ UNCHANGED <<db, await_voucher_code, await_account_info,
                             await_proof_order_id, today>>
           [] data = "qty_minus" ->
              /\ checkout' = [checkout EXCEPT ![u].qty = clamp_qty(ck.qty - 1)]
              /\ reply' = "Atur jumlah:"
              /\ outbox' = {} /\ updated' = 0
              /\ UNCHANGED <<db, await_voucher_code, await_account_info,
                             await_proof_order_id, today>>
           [] data = "qty_done" ->
              /\ checkout' = [checkout EXCEPT ![u].discount = 0,
                                              ![u].voucher_code = ""]
              /\ IF product_requires_account(ck.pid)
                 THEN /\ await_account_info' = [await_account_info EXCEPT ![u] = TRUE]
                      /\ reply' = "Masukin data akun / catatan untuk pesanan ini"
                 ELSE /\ UNCHANGED await_account_info
                      /\ reply' = "Mau pakai voucher?"
              /\ outbox' = {} /\ updated' = 0
              /\ UNCHANGED <<db, await_voucher_code, await_proof_order_id, today>>
           [] data = "back_qty" ->
              /\ await_account_info' = [await_account_info EXCEPT ![u] = FALSE]
              /\ reply' = "Atur jumlah:"
              /\ outbox' = {} /\ updated' = 0
              /\ UNCHANGED <<db, checkout, await_voucher_code,
                             await_proof_order_id, today>>

\* data == "acc_skip"
cb_acc_skip(u) ==
    LET ck == checkout[u] IN
    IF ck = None
    THEN /\ await_account_info' = [await_account_info EXCEPT ![u] = FALSE]
         /\ reply' = "Session checkout hilang. Balik ke /start."
         /\ outbox' = {} /\ updated' = 0
         /\ UNCHANGED <<db, checkout, await_voucher_code, await_proof_order_id,
                        today>>
    ELSE /\ checkout' = [checkout EXCEPT ![u].note = ""]
         /\ await_account_info' = [await_account_info EXCEPT ![u] = FALSE]
         /\ reply' = "Mau pakai voucher?"
         /\ outbox' = {} /\ updated' = 0
         /\ UNCHANGED <<db, await_voucher_code, await_proof_order_id, today>>

\* data in ("use_voucher", "skip_voucher", "back_voucher")
cb_voucher(u, data) ==
    LET ck == checkout[u] IN
    IF ck = None
    THEN /\ reply' = "Session checkout hilang. Balik ke katalog."
         /\ outbox' = {} /\ updated' = 0
         /\ UNCHANGED <<db, user_data, today>>
    ELSE CASE data = "use_voucher" ->
              /\ await_voucher_code' = [await_voucher_code EXCEPT ![u] = TRUE]
              /\ reply' = "Kirim kode voucher sekarang."
              /\ outbox' = {} /\ updated' = 0
              /\ UNCHANGED <<db, checkout, await_account_info,
                             await_proof_order_id, today>>
           [] data = "skip_voucher" ->
              /\ checkout' = [checkout EXCEPT ![u].voucher_code = "",
                                              ![u].discount = 0]
              /\ reply' = "Pilih metode pembayaran:"
              /\ outbox' = {} /\ updated' = 0
              /\ UNCHANGED <<db, await_voucher_code, await_account_info,
                             await_proof_order_id, today>>
           [] data = "back_voucher" ->
              /\ reply' = "Mau pakai voucher?"
              /\ outbox' = {} /\ updated' = 0
              /\ UNCHANGED <<db, user_data, today>>

\* a total that subtracts the discount without the floor at 0
cb_pay_unclamped(u, method) ==
    LET ck == checkout[u]
        fee == fee_for_method(method)
        subtotal == ck.price * ck.qty
        discount == ck.discount
        voucher_code == upper(ck.voucher_code)
        base == subtotal - discount
        total == base + fee
        oid == Len(orders) + 1
    IN
    IF ck = None
    THEN /\ reply' = "Session checkout hilang. Balik ke katalog."
         /\ outbox' = {} /\ updated' = 0
         /\ UNCHANGED <<db, user_data, today>>
    ELSE /\ orders' = Append(orders,
                [user_id |-> u, product_id |-> ck.pid, qty |-> ck.qty,
                 amount |-> total, note |-> ck.note, status |-> "WAITING_PAYMENT",
                 payment_method |-> method, fee |-> fee, discount |-> discount,
                 voucher_code |-> voucher_code, proof_file_id |-> "",
                 proof_caption |-> <<>>, admin_note |-> ""])
         /\ vouchers' = IF voucher_code # "" THEN increment_voucher_use(voucher_code)
                        ELSE vouchers
         /\ await_proof_order_id' = [await_proof_order_id EXCEPT ![u] = oid]
         /\ checkout' = [checkout EXCEPT ![u] = None]
         /\ await_voucher_code' = [await_voucher_code EXCEPT ![u] = FALSE]
         /\ await_account_info' = [await_account_info EXCEPT ![u] = FALSE]
         /\ reply' = "Silakan lakukan pembayaran:"
         /\ outbox' = {} /\ updated' = 0
         /\ UNCHANGED <<products, today>>

\* data == "pay_<METHOD>": price the session, INSERT the order, redeem, drop the session
cb_pay(u, method) ==
    LET ck == checkout[u]
        fee == fee_for_method(method)
        subtotal == ck.price * ck.qty
        discount == ck.discount
        voucher_code == upper(ck.voucher_code)
        base == Max(0, subtotal - discount)
        total == base + fee
        oid == Len(orders) + 1
    IN
    IF ck = None
    THEN /\ reply' = "Session checkout hilang. Balik ke katalog."
         /\ outbox' = {} /\ updated' = 0
         /\ UNCHANGED <<db, user_data, today>>
    ELSE /\ orders' = Append(orders,
                [user_id |-> u, product_id |-> ck.pid, qty |-> ck.qty,
                 amount |-> total, note |-> ck.note, status |-> "WAITING_PAYMENT",
                 payment_method |-> method, fee |-> fee, discount |-> discount,
                 voucher_code |-> voucher_code, proof_file_id |-> "",
                 proof_caption |-> <<>>, admin_note |-> ""])
         /\ vouchers' = IF voucher_code # "" THEN increment_voucher_use(voucher_code)
                        ELSE vouchers
         /\ await_proof_order_id' = [await_proof_order_id EXCEPT ![u] = oid]
         /\ checkout' = [checkout EXCEPT ![u] = None]
         /\ await_voucher_code' = [await_voucher_code EXCEPT ![u] = FALSE]
         /\ await_account_info' = [await_account_info EXCEPT ![u] = FALSE]
         /\ reply' = "Silakan lakukan pembayaran:"
         /\ outbox' = {} /\ updated' = 0
         /\ UNCHANGED <<products, today>>

\* data == "pay_<METHOD>", stopped between the two transactions: the INSERT is
\* committed when its "with db()" block ends, increment_voucher_use opens a
\* second connection afterwards.  Either the process dies there (restart: the
\* in-memory user_data of every user is gone), or the second transaction raises
\* (database locked) and the handler ends in on_error with user_data untouched.
cb_pay_fails(u, method, restart) ==
    LET ck == checkout[u]
        fee == fee_for_method(method)
        subtotal == ck.price * ck.qty
        discount == ck.discount
        voucher_code == upper(ck.voucher_code)
        total == Max(0, subtotal - discount) + fee
    IN
    /\ ck # None
    /\ restart \/ voucher_code # ""
    /\ orders' = Append(orders,
                [user_id |-> u, product_id |-> ck.pid, qty |-> ck.qty,
                 amount |-> total, note |-> ck.note, status |-> "WAITING_PAYMENT",
                 payment_method |-> method, fee |-> fee, discount |-> discount,
                 voucher_code |-> voucher_code, proof_file_id |-> "",
                 proof_caption |-> <<>>, admin_note |-> ""])
    /\ IF restart
       THEN /\ checkout' = [x \in Users |-> None]
            /\ await_voucher_code' = [x \in Users |-> FALSE]
            /\ await_account_info' = [x \in Users |-> FALSE]
            /\ await_proof_order_id' = [x \in Users |-> 0]
       ELSE UNCHANGED user_data
    /\ reply' = "" /\ outbox' = {} /\ updated' = 0
    /\ UNCHANGED <<products, vouchers, today>>

-----------------------------------------------------------------------------
(* cb_handler: the admin's decision on an order *)

\* SELECT o.*, p.name FROM orders o JOIN products p ON p.id=o.product_id WHERE o.id=?
order_with_product(order_id) ==
    IF /\ order_id \in DOMAIN orders
       /\ products[orders[order_id].product_id] # None
    THEN orders[order_id] ELSE None

\* a mapping under which a rejection reopens the order for payment
new_status_reject_reopens(action) ==
    CASE action = "adm_appr" -> "PAID"
      [] action = "adm_rej" -> "WAITING_PAYMENT"
      [] OTHER -> "DONE"

new_status(action) ==
    CASE action = "adm_appr" -> "PAID"
      [] action = "adm_rej" -> "REJECTED"
      [] OTHER -> "DONE"

admin_note(action) ==
    CASE action = "adm_appr" -> "Approved"
      [] action = "adm_rej" -> "Rejected"
      [] OTHER -> "Done"

\* data == "adm_appr_<id>" | "adm_rej_<id>" | "adm_done_<id>"
\* a decision whose UPDATE names the order's note column instead of admin_note
cb_adm_action_writes_note(u, action, order_id) ==
    LET row == order_with_product(order_id)
        user_msg == [to |-> IF row = None THEN 0 ELSE row.user_id,
                     text |-> new_status(action), order |-> order_id]
        testi == [to |-> 0, text |-> "TESTIMONI", order |-> order_id]
    IN
    IF ~is_admin(u)
    THEN /\ reply' = ""
         /\ outbox' = {} /\ updated' = 0
         /\ UNCHANGED <<db, user_data, today>>
    ELSE IF row = None
    THEN /\ reply' = "Order tidak ditemukan."
         /\ outbox' = {} /\ updated' = 0
         /\ UNCHANGED <<db, user_data, today>>
    ELSE /\ orders' = [orders EXCEPT ![order_id].status = new_status(action),
                                     ![order_id].note = admin_note(action)]
         /\ updated' = order_id
         \* each send is wrapped in try/except: it is delivered or it is logged
         /\ \E sent \in SUBSET ({user_msg} \cup
                    IF new_status(action) = "DONE" /\ TESTI_CHANNEL_ID # ""
                    THEN {testi} ELSE {}) :
                outbox' = sent
         /\ reply' = "OK. Order => status"
         /\ UNCHANGED <<products, vouchers, user_data, today>>

\* a decision that is rolled back when the owner cannot be told
cb_adm_action_needs_delivery(u, action, order_id) ==
    LET row == order_with_product(order_id)
        user_msg == [to |-> IF row = None THEN 0 ELSE row.user_id,
                     text |-> new_status(action), order |-> order_id]
        testi == [to |-> 0, text |-> "TESTIMONI", order |-> order_id]
    IN
    IF ~is_admin(u)
    THEN /\ reply' = ""
         /\ outbox' = {} /\ updated' = 0
         /\ UNCHANGED <<db, user_data, today>>
    ELSE IF row = None
    THEN /\ reply' = "Order tidak ditemukan."
         /\ outbox' = {} /\ updated' = 0
         /\ UNCHANGED <<db, user_data, today>>
    ELSE /\ \E sent \in SUBSET ({user_msg} \cup
                    IF new_status(action) = "DONE" /\ TESTI_CHANNEL_ID # ""
                    THEN {testi} ELSE {}) :
                /\ outbox' = sent
                /\ orders' = IF user_msg \in sent
                             THEN [orders EXCEPT
                                     ![order_id].status = new_status(action),
                                     ![order_id].admin_note = admin_note(action)]
                             ELSE orders
                /\ updated' = IF user_msg \in sent THEN order_id ELSE 0
         /\ reply' = "OK. Order => status"
         /\ UNCHANGED <<products, vouchers, user_data, today>>

cb_adm_action(u, action, order_id) ==
    LET row == order_with_product(order_id)
        user_msg == [to |-> IF row = None THEN 0 ELSE row.user_id,
                     text |-> new_status(action), order |-> order_id]
        testi == [to |-> 0, text |-> "TESTIMONI", order |-> order_id]
    IN
    IF ~is_admin(u)
    THEN /\ reply' = ""
         /\ outbox' = {} /\ updated' = 0
         /\ UNCHANGED <<db, user_data, today>>
    ELSE IF row = None
    THEN /\ reply' = "Order tidak ditemukan."
         /\ outbox' = {} /\ updated' = 0
         /\ UNCHANGED <<db, user_data, today>>
    ELSE /\ orders' = [orders EXCEPT ![order_id].status = new_status(action),
                                     ![order_id].admin_note = admin_note(action)]
         /\ updated' = order_id
         \* each send is wrapped in try/except: it is delivered or it is logged
         /\ \E sent \in SUBSET ({user_msg} \cup
                    IF new_status(action) = "DONE" /\ TESTI_CHANNEL_ID # ""
                    THEN {testi} ELSE {}) :
                outbox' = sent
         /\ reply' = "OK. Order => status"
         /\ UNCHANGED <<products, vouchers, user_data, today>>

-----------------------------------------------------------------------------
(* msg_text_handler: free text, the account note or the voucher code *)

\* a voucher stage that a refused code ends as well
msg_text_handler_leaves_stage(u, text) ==
    LET ck == checkout[u]
        code == upper(text)
        subtotal == ck.price * ck.qty
        res == validate_voucher(code, subtotal)
    IN
    IF await_account_info[u]
    THEN /\ await_account_info' = [await_account_info EXCEPT ![u] = FALSE]
         /\ IF ck = None
            THEN /\ reply' = "Session checkout hilang. Balik ke /start."
                 /\ UNCHANGED checkout
            ELSE /\ checkout' = [checkout EXCEPT ![u].note = text]
                 /\ reply' = "Data dicatat. Mau pakai voucher?"
         /\ outbox' = {} /\ updated' = 0
         /\ UNCHANGED <<db, await_voucher_code, await_proof_order_id, today>>
    ELSE IF await_voucher_code[u]
    THEN IF ck = None
         THEN /\ await_voucher_code' = [await_voucher_code EXCEPT ![u] = FALSE]
              /\ reply' = "Session checkout hilang. Balik ke /start."
              /\ outbox' = {} /\ updated' = 0
              /\ UNCHANGED <<db, checkout, await_account_info, await_proof_order_id,
                             today>>
         ELSE IF upper(text) = "SKIP"
         THEN /\ await_voucher_code' = [await_voucher_code EXCEPT ![u] = FALSE]
              /\ checkout' = [checkout EXCEPT ![u].voucher_code = "",
                                              ![u].discount = 0]
              /\ reply' = "OK, voucher dilewati. Pilih metode pembayaran:"
              /\ outbox' = {} /\ updated' = 0
              /\ UNCHANGED <<db, await_account_info, await_proof_order_id, today>>
         ELSE IF ~res.ok
         THEN /\ await_voucher_code' = [await_voucher_code EXCEPT ![u] = FALSE]
              /\ reply' = res.reason
              /\ outbox' = {} /\ updated' = 0
              /\ UNCHANGED <<db, checkout, await_account_info, await_proof_order_id,
                             today>>
         ELSE /\ checkout' = [checkout EXCEPT ![u].voucher_code = code,
                                              ![u].discount = res.disc]
              /\ await_voucher_code' = [await_voucher_code EXCEPT ![u] = FALSE]
              /\ reply' = "Voucher dipakai. Sekarang pilih metode pembayaran:"
              /\ outbox' = {} /\ updated' = 0
              /\ UNCHANGED <<db, await_account_info, await_proof_order_id, today>>
    ELSE /\ reply' = ""
         /\ outbox' = {} /\ updated' = 0
         /\ UNCHANGED <<db, user_data, today>>

msg_text_handler(u, text) ==
    LET ck == checkout[u]
        code == upper(text)
        subtotal == ck.price * ck.qty
        res == validate_voucher(code, subtotal)
    IN
    IF await_account_info[u]
    THEN /\ await_account_info' = [await_account_info EXCEPT ![u] = FALSE]
         /\ IF ck = None
            THEN /\ reply' = "Session checkout hilang. Balik ke /start."
                 /\ UNCHANGED checkout
            ELSE /\ checkout' = [checkout EXCEPT ![u].note = text]
                 /\ reply' = "Data dicatat. Mau pakai voucher?"
         /\ outbox' = {} /\ updated' = 0
         /\ UNCHANGED <<db, await_voucher_code, await_proof_order_id, today>>
    ELSE IF await_voucher_code[u]
    THEN IF ck = None
         THEN /\ await_voucher_code' = [await_voucher_code EXCEPT ![u] = FALSE]
              /\ reply' = "Session checkout hilang. Balik ke /start."
              /\ outbox' = {} /\ updated' = 0
              /\ UNCHANGED <<db, checkout, await_account_info, await_proof_order_id,
                             today>>
         ELSE IF upper(text) = "SKIP"
         THEN /\ await_voucher_code' = [await_voucher_code EXCEPT ![u] = FALSE]
              /\ checkout' = [checkout EXCEPT ![u].voucher_code = "",
                                              ![u].discount = 0]
              /\ reply' = "OK, voucher dilewati. Pilih metode pembayaran:"
              /\ outbox' = {} /\ updated' = 0
              /\ UNCHANGED <<db, await_account_info, await_proof_order_id, today>>
         ELSE IF ~res.ok
         THEN /\ reply' = res.reason
              /\ outbox' = {} /\ updated' = 0
              /\ UNCHANGED <<db, user_data, today>>
         ELSE /\ checkout' = [checkout EXCEPT ![u].voucher_code = code,
                                              ![u].discount = res.disc]
              /\ await_voucher_code' = [await_voucher_code EXCEPT ![u] = FALSE]
              /\ reply' = "Voucher dipakai. Sekarang pilih metode pembayaran:"
              /\ outbox' = {} /\ updated' = 0
              /\ UNCHANGED <<db, await_account_info, await_proof_order_id, today>>
    ELSE /\ reply' = ""
         /\ outbox' = {} /\ updated' = 0
         /\ UNCHANGED <<db, user_data, today>>

-----------------------------------------------------------------------------
(* photo_handler: the proof of payment *)

Digits == {"0", "1", "2", "3", "4", "5", "6", "7", "8", "9"}

digit_value(c) ==
    CASE c = "0" -> 0 [] c = "1" -> 1 [] c = "2" -> 2 [] c = "3" -> 3 [] c = "4" -> 4
      [] c = "5" -> 5 [] c = "6" -> 6 [] c = "7" -> 7 [] c = "8" -> 8 [] OTHER -> 9

\* int() of the longest run of digits of caption that starts at position i
RECURSIVE digits_from(_, _, _)
digits_from(caption, i, acc) ==
    IF i <= Len(caption) /\ caption[i] \in Digits
    THEN digits_from(caption, i + 1, acc * 10 + digit_value(caption[i]))
    ELSE acc

\* re.search(r"#(\d+)", caption): the first "#" that a digit follows; -1 is no match
RECURSIVE caption_order_ref(_, _)
caption_order_ref(caption, i) ==
    IF i >= Len(caption) THEN -1
    ELSE IF caption[i] = "#" /\ caption[i + 1] \in Digits
         THEN digits_from(caption, i + 1, 0)
         ELSE caption_order_ref(caption, i + 1)

\* the order id the handler settles on; 0 is "not order_id" (None or 0)
proof_order_id(u, caption) ==
    LET m == IF caption # <<>> THEN caption_order_ref(caption, 1) ELSE -1 IN
    IF m > 0 THEN m ELSE await_proof_order_id[u]

\* a lookup by id alone: SELECT * FROM orders WHERE id=?
own_order_any_user(order_id, uid) ==
    IF order_id \in DOMAIN orders THEN orders[order_id] ELSE None

\* SELECT * FROM orders WHERE id=? AND user_id=?
own_order(order_id, uid) ==
    IF order_id \in DOMAIN orders /\ orders[order_id].user_id = uid
    THEN orders[order_id] ELSE None

\* a proof intake that takes photos only for orders still waiting for one
photo_handler_open_orders_only(u, file_id, caption) ==
    LET order_id == proof_order_id(u, caption)
        to_admins == {[to |-> adm, text |-> "Bukti Bayar Masuk", order |-> order_id] :
                        adm \in ADMIN_IDS}
    IN
    IF order_id = 0
    THEN /\ reply' = "Aku butuh order_id."
         /\ outbox' = {} /\ updated' = 0
         /\ UNCHANGED <<db, user_data, today>>
    ELSE IF \/ own_order(order_id, u) = None
            \/ own_order(order_id, u).status \notin {"WAITING_PAYMENT", "PROOF_SUBMITTED"}
    THEN /\ reply' = "Order tidak ditemukan (atau bukan punyamu)."
         /\ outbox' = {} /\ updated' = 0
         /\ UNCHANGED <<db, user_data, today>>
    ELSE /\ orders' = [orders EXCEPT ![order_id].proof_file_id = file_id,
                                     ![order_id].proof_caption = caption,
                                     ![order_id].status = "PROOF_SUBMITTED"]
         /\ updated' = order_id
         /\ reply' = "OK. Bukti sudah masuk. Tunggu admin verifikasi."
         \* the JOIN finds no row once the product is deleted and the handler
         \* fails before the loop; otherwise each send may fail on its own
         /\ IF order_with_product(order_id) = None
            THEN outbox' = {}
            ELSE \E sent \in SUBSET to_admins : outbox' = sent
         /\ UNCHANGED <<products, vouchers, user_data, today>>

photo_handler(u, file_id, caption) ==
    LET order_id == proof_order_id(u, caption)
        to_admins == {[to |-> adm, text |-> "Bukti Bayar Masuk", order |-> order_id] :
                        adm \in ADMIN_IDS}
    IN
    IF order_id = 0
    THEN /\ reply' = "Aku butuh order_id."
         /\ outbox' = {} /\ updated' = 0
         /\ UNCHANGED <<db, user_data, today>>
    ELSE IF own_order(order_id, u) = None
    THEN /\ reply' = "Order tidak ditemukan (atau bukan punyamu)."
         /\ outbox' = {} /\ updated' = 0
         /\ UNCHANGED <<db, user_data, today>>
    ELSE /\ orders' = [orders EXCEPT ![order_id].proof_file_id = file_id,
                                     ![order_id].proof_caption = caption,
                                     ![order_id].status = "PROOF_SUBMITTED"]
         /\ updated' = order_id
         /\ reply' = "OK. Bukti sudah masuk. Tunggu admin verifikasi."
         \* the JOIN finds no row once the product is deleted and the handler
         \* fails before the loop; otherwise each send may fail on its own
         /\ IF order_with_product(order_id) = None
            THEN outbox' = {}
            ELSE \E sent \in SUBSET to_admins : outbox' = sent
         /\ UNCHANGED <<products, vouchers, user_data, today>>

-----------------------------------------------------------------------------
(* Commands *)

\* data == "noop": the query is answered and nothing else happens
cb_noop(u) ==
    /\ reply' = ""
    /\ outbox' = {} /\ updated' = 0
    /\ UNCHANGED <<db, user_data, today>>

\* data == "home"
cb_home(u) ==
    /\ reply' = "Menu:"
    /\ outbox' = {} /\ updated' = 0
    /\ UNCHANGED <<db, user_data, today>>

\* data == "my": the user's orders whose product still exists
cb_my(u) ==
    /\ reply' = IF \E i \in DOMAIN orders :
                      orders[i].user_id = u /\ order_with_product(i) # None
                THEN "Order kamu (10 terakhir):"
                ELSE "Belum ada order."
    /\ outbox' = {} /\ updated' = 0
    /\ UNCHANGED <<db, user_data, today>>

\* a /start that begins from a clean slate, dropping the user's session
start_cmd_resets_session(u) ==
    /\ checkout' = [checkout EXCEPT ![u] = None]
    /\ reply' = IF is_admin(u) THEN "AUTO ORDER BOT, ADMIN CMD" ELSE "AUTO ORDER BOT"
    /\ outbox' = {} /\ updated' = 0
    /\ UNCHANGED <<db, await_voucher_code, await_account_info,
                   await_proof_order_id, today>>

\* /start
start_cmd(u) ==
    /\ reply' = IF is_admin(u) THEN "AUTO ORDER BOT, ADMIN CMD" ELSE "AUTO ORDER BOT"
    /\ outbox' = {} /\ updated' = 0
    /\ UNCHANGED <<db, user_data, today>>

\* a /confirm that binds to any existing order, whoever owns it
confirm_cmd_any_order(u, oid) ==
    IF oid \notin DOMAIN orders
    THEN /\ reply' = "Order tidak ditemukan (atau bukan punyamu)."
         /\ outbox' = {} /\ updated' = 0
         /\ UNCHANGED <<db, user_data, today>>
    ELSE /\ await_proof_order_id' = [await_proof_order_id EXCEPT ![u] = oid]
         /\ reply' = "OK. Kirim foto bukti sekarang."
         /\ outbox' = {} /\ updated' = 0
         /\ UNCHANGED <<db, checkout, await_voucher_code, await_account_info,
                        today>>

\* /confirm <order_id>
confirm_cmd(u, oid) ==
    IF own_order(oid, u) = None
    THEN /\ reply' = "Order tidak ditemukan (atau bukan punyamu)."
         /\ outbox' = {} /\ updated' = 0
         /\ UNCHANGED <<db, user_data, today>>
    ELSE /\ await_proof_order_id' = [await_proof_order_id EXCEPT ![u] = oid]
         /\ reply' = "OK. Kirim foto bukti sekarang."
         /\ outbox' = {} /\ updated' = 0
         /\ UNCHANGED <<db, checkout, await_voucher_code, await_account_info,
                        today>>

\* /testi <order_id>: the reply, as a function of the caller and the order
testi_reply(u, oid) ==
    LET row == order_with_product(oid) IN
    IF TESTI_CHANNEL_ID = ""
    THEN "TESTI_CHANNEL_ID belum diset, atau bot belum admin channel."
    ELSE IF row = None THEN "Order tidak ditemukan."
    ELSE IF ~is_admin(u) /\ row.user_id # u THEN "Itu bukan order kamu."
    ELSE IF ~is_admin(u) /\ row.status \notin {"PAID", "DONE"}
    THEN "Order status masih belum PAID/DONE."
    ELSE "Berhasil. Testimoni sudah di-upload."

testi_cmd(u, oid) ==
    LET testi == [to |-> 0, text |-> "TESTIMONI", order |-> oid] IN
    /\ IF testi_reply(u, oid) = "Berhasil. Testimoni sudah di-upload."
       \* the send to the channel is not guarded: when it fails the handler
       \* ends there and the user gets no reply
       THEN \/ outbox' = {testi} /\ reply' = testi_reply(u, oid)
            \/ outbox' = {} /\ reply' = ""
       ELSE outbox' = {} /\ reply' = testi_reply(u, oid)
    /\ updated' = 0
    /\ UNCHANGED <<db, user_data, today>>

admin_only ==
    /\ reply' = "Khusus admin."
    /\ outbox' = {} /\ updated' = 0
    /\ UNCHANGED <<db, user_data, today>>

\* a price update that also reprices the sessions open on the product
setprod_cmd_reprices_sessions(u, pid, price, active) ==
    IF ~is_admin(u) THEN admin_only
    ELSE IF products[pid] = None
    THEN /\ reply' = "Produk tidak ditemukan."
         /\ outbox' = {} /\ updated' = 0
         /\ UNCHANGED <<db, user_data, today>>
    ELSE /\ products' = IF active = -1
                        THEN [products EXCEPT ![pid].price = price]
                        ELSE [products EXCEPT ![pid].price = price,
                                              ![pid].active = active]
         /\ checkout' = [x \in Users |->
                           IF checkout[x] # None /\ checkout[x].pid = pid
                           THEN [checkout[x] EXCEPT !.price = price]
                           ELSE checkout[x]]
         /\ reply' = "OK. Produk diupdate."
         /\ outbox' = {} /\ updated' = 0
         /\ UNCHANGED <<vouchers, orders, await_voucher_code, await_account_info,
                        await_proof_order_id, today>>

\* /setprod ID | Nama | harga | active=1/0(optional); active = -1 is "not given"
setprod_cmd(u, pid, price, active) ==
    IF ~is_admin(u) THEN admin_only
    ELSE IF products[pid] = None
    THEN /\ reply' = "Produk tidak ditemukan."
         /\ outbox' = {} /\ updated' = 0
         /\ UNCHANGED <<db, user_data, today>>
    ELSE /\ products' = IF active = -1
                        THEN [products EXCEPT ![pid].price = price]
                        ELSE [products EXCEPT ![pid].price = price,
                                              ![pid].active = active]
         /\ reply' = "OK. Produk diupdate."
         /\ outbox' = {} /\ updated' = 0
         /\ UNCHANGED <<vouchers, orders, user_data, today>>

\* /delprod ID
delprod_cmd(u, pid) ==
    IF ~is_admin(u) THEN admin_only
    ELSE /\ products' = [products EXCEPT ![pid] = None]
         /\ reply' = "OK. Produk dihapus."
         /\ outbox' = {} /\ updated' = 0
         /\ UNCHANGED <<vouchers, orders, user_data, today>>

\* data == "adm_req_<pid>_<page>": toggle requires_account
cb_adm_req(u, pid) ==
    IF ~is_admin(u)
    THEN /\ reply' = ""
         /\ outbox' = {} /\ updated' = 0
         /\ UNCHANGED <<db, user_data, today>>
    ELSE IF products[pid] = None
    THEN /\ reply' = "Produk tidak ditemukan."
         /\ outbox' = {} /\ updated' = 0
         /\ UNCHANGED <<db, user_data, today>>
    ELSE /\ products' = [products EXCEPT ![pid].requires_account =
                            IF @ = 1 THEN 0 ELSE 1]
         /\ reply' = "Admin Produk (Updated)"
         /\ outbox' = {} /\ updated' = 0
         /\ UNCHANGED <<vouchers, orders, user_data, today>>

\* data == "adm_toggle_<pid>_<page>": toggle active
cb_adm_toggle(u, pid) ==
    IF ~is_admin(u)
    THEN /\ reply' = ""
         /\ outbox' = {} /\ updated' = 0
         /\ UNCHANGED <<db, user_data, today>>
    ELSE IF products[pid] = None
    THEN /\ reply' = "Produk tidak ditemukan."
         /\ outbox' = {} /\ updated' = 0
         /\ UNCHANGED <<db, user_data, today>>
    ELSE /\ products' = [products EXCEPT ![pid].active = IF @ = 1 THEN 0 ELSE 1]
         /\ reply' = "Admin Produk (Updated)"
         /\ outbox' = {} /\ updated' = 0
         /\ UNCHANGED <<vouchers, orders, user_data, today>>

\* /voucheradd CODE | type | value | max_uses | expires: INSERT ... ON CONFLICT(code)
\* DO UPDATE of everything but used_count
voucheradd_cmd(u, code, v) ==
    IF ~is_admin(u) THEN admin_only
    ELSE IF v.type = "percent" /\ ~(1 <= v.value /\ v.value <= 100)
    THEN /\ reply' = "Percent harus 1..100"
         /\ outbox' = {} /\ updated' = 0
         /\ UNCHANGED <<db, user_data, today>>
    ELSE /\ vouchers' = [vouchers EXCEPT ![upper(code)] =
                [type |-> v.type, value |-> v.value, max_uses |-> v.max_uses,
                 used_count |-> IF @ = None THEN 0 ELSE @.used_count,
                 expires |-> v.expires]]
         /\ reply' = "OK. Voucher disimpan."
         /\ outbox' = {} /\ updated' = 0
         /\ UNCHANGED <<products, orders, user_data, today>>

\* /voucherdel CODE
voucherdel_cmd(u, code) ==
    IF ~is_admin(u) THEN admin_only
    ELSE /\ vouchers' = [vouchers EXCEPT ![upper(code)] = None]
         /\ reply' = "OK. Voucher dihapus."
         /\ outbox' = {} /\ updated' = 0
         /\ UNCHANGED <<products, orders, user_data, today>>

-----------------------------------------------------------------------------
(* The bot: one update at a time, any update in any state *)

\* date.today() moves on
day_passes ==
    /\ today < MaxDay
    /\ today' = today + 1
    /\ reply' = "" /\ outbox' = {} /\ updated' = 0
    /\ UNCHANGED <<db, user_data>>

-----------------------------------------------------------------------------
(* The bot takes one update at a time, and any update in any state: a button *)
(* of an earlier message can still be pressed.  Each specification draws the *)
(* updates of one part of the bot from small sets.                           *)

\* the dispatcher: which handler takes the update, and from whom
handled(handler, u) == last' = [handler |-> handler, user |-> u]

\* Spec: one shopper's checkout of one product, with the account note and a
\* voucher the admin adds and deletes
Shopper == 2

Next ==
    \/ cb_cat(Shopper) /\ handled("cb_cat", Shopper)
    \/ cb_buy(Shopper, 1) /\ handled("cb_buy", Shopper)
    \/ \E data \in {"qty_plus", "qty_minus", "qty_done", "back_qty"} :
          /\ (data = "qty_plus" /\ checkout[Shopper] # None)
                => checkout[Shopper].qty < MaxQtySeen
          /\ cb_qty(Shopper, data) /\ handled("cb_qty", Shopper)
    \/ cb_acc_skip(Shopper) /\ handled("cb_acc_skip", Shopper)
    \/ \E data \in {"use_voucher", "skip_voucher", "back_voucher"} :
          cb_voucher(Shopper, data) /\ handled("cb_voucher", Shopper)
    \/ /\ Len(orders) < MaxOrders
       /\ cb_pay(Shopper, "DANA") /\ handled("cb_pay", Shopper)
    \/ msg_text_handler(Shopper, "hemat10") /\ handled("msg_text_handler", Shopper)
    \/ \E u \in ADMIN_IDS : cb_adm_req(u, 1) /\ handled("cb_adm_req", u)
    \/ \E u \in ADMIN_IDS, v \in VoucherInputs :
          voucheradd_cmd(u, "hemat10", v) /\ handled("voucheradd_cmd", u)
    \/ \E u \in ADMIN_IDS : voucherdel_cmd(u, "hemat10") /\ handled("voucherdel_cmd", u)

Spec == Init /\ [][Next]_vars

\* SpecUsers: two shoppers at one voucher, quantity left at 1
NextUsers ==
    \/ \E u \in Users : cb_buy(u, 1) /\ handled("cb_buy", u)
    \/ \E u \in Users : cb_qty(u, "qty_done") /\ handled("cb_qty", u)
    \/ \E u \in Users, data \in {"use_voucher", "skip_voucher", "back_voucher"} :
          cb_voucher(u, data) /\ handled("cb_voucher", u)
    \/ \E u \in Users :
          /\ Len(orders) < MaxOrdersUsers
          /\ cb_pay(u, "DANA") /\ handled("cb_pay", u)
    \/ \E u \in Users : msg_text_handler(u, "hemat10") /\ handled("msg_text_handler", u)
    \/ \E u \in ADMIN_IDS, v \in VoucherInputs :
          voucheradd_cmd(u, "HEMAT10", v) /\ handled("voucheradd_cmd", u)
    \/ \E u \in ADMIN_IDS : voucherdel_cmd(u, "HEMAT10") /\ handled("voucherdel_cmd", u)

SpecUsers == Init /\ [][NextUsers]_vars

\* SpecOrders: the life of the orders two users commit: proofs, by the owner and
\* by the other user, and decisions, by the admin and by the other user
digit_char(n) ==
    CASE n = 0 -> "0" [] n = 1 -> "1" [] n = 2 -> "2" [] n = 3 -> "3" [] n = 4 -> "4"
      [] n = 5 -> "5" [] n = 6 -> "6" [] n = 7 -> "7" [] n = 8 -> "8" [] OTHER -> "9"

OrderIds == 1..(MaxOrdersLife + 1)
Captions == {<<>>} \cup {<<"#", digit_char(n)>> : n \in OrderIds}
AdminActions == {"adm_appr", "adm_rej", "adm_done"}

NextOrders ==
    \/ \E u \in Users : cb_buy(u, 1) /\ handled("cb_buy", u)
    \/ \E u \in Users :
          /\ Len(orders) < MaxOrdersLife
          /\ cb_pay(u, "DANA") /\ handled("cb_pay", u)
    \/ \E u \in Users, action \in AdminActions, order_id \in OrderIds :
          cb_adm_action(u, action, order_id) /\ handled("cb_adm_action", u)
    \/ \E u \in Users, caption \in Captions :
          photo_handler(u, "f1", caption) /\ handled("photo_handler", u)
    \/ \E u \in Users, oid \in OrderIds : confirm_cmd(u, oid) /\ handled("confirm_cmd", u)

SpecOrders == Init /\ [][NextOrders]_vars

-----------------------------------------------------------------------------
(* Order status machine: admin decisions and proofs (SpecOrders) *)

NewOrders == (DOMAIN orders') \ (DOMAIN orders)

\* C1: an admin decision on an order that already is in the decision's target
\* status is a no-op: the row is not written again and no notification goes out.
C1_RepeatedDecisionIsNoOp ==
    [][\A u \in ADMIN_IDS, action \in AdminActions, order_id \in DOMAIN orders :
         ( /\ order_with_product(order_id) # None
           /\ orders[order_id].status = new_status(action)
           /\ cb_adm_action(u, action, order_id) )
         => (orders' = orders /\ updated' = 0 /\ outbox' = {})]_vars

\* C2: an order the admin rejected after its proof came in stays REJECTED when
\* the admin then approves it.
C2_ApproveAfterRejectKeepsRejected ==
    [][\A u \in ADMIN_IDS, order_id \in DOMAIN orders :
         ( /\ orders[order_id].status = "REJECTED"
           /\ orders[order_id].proof_file_id # ""
           /\ cb_adm_action(u, "adm_appr", order_id) )
         => orders'[order_id].status = "REJECTED"]_vars

\* C3: DONE and REJECTED are terminal: no step of the bot changes the status of
\* an order that is in one of them.
C3_TerminalStatusesAreFinal ==
    [][\A order_id \in DOMAIN orders :
         orders[order_id].status \in {"DONE", "REJECTED"}
         => orders'[order_id].status = orders[order_id].status]_vars

-----------------------------------------------------------------------------
(* Voucher ledger *)

C5_UsedWithinMax ==
    \A c \in Codes :
        (vouchers[c] # None /\ vouchers[c].max_uses > 0)
        => vouchers[c].used_count <= vouchers[c].max_uses

-----------------------------------------------------------------------------
(* Pricing *)

\* C6: every order a step commits has amount = subtotal - discount + fee, with
\* subtotal the session's price * qty, and 0 <= discount <= subtotal.
C6_CommittedAmount ==
    [][\A i \in NewOrders :
         LET o == orders'[i]
             ck == checkout[o.user_id]
             subtotal == ck.price * ck.qty
         IN /\ o.amount = subtotal - o.discount + o.fee
            /\ 0 <= o.discount
            /\ o.discount <= subtotal]_vars

-----------------------------------------------------------------------------
(* Proof intake *)

NotFoundOrNotYours == "Order tidak ditemukan (atau bukan punyamu)."

\* C7: a proof photo whose order reference names an order of another user, or no
\* order at all, is answered with the not-found reply and changes no order.
C7_ForeignProofRefused ==
    [][\A u \in Users, caption \in Captions :
         LET order_id == proof_order_id(u, caption) IN
         ( /\ last'.handler = "photo_handler" /\ last'.user = u
           /\ order_id # 0
           /\ (order_id \notin DOMAIN orders \/ orders[order_id].user_id # u)
           /\ photo_handler(u, "f1", caption) )
         => (reply' = NotFoundOrNotYours /\ orders' = orders)]_vars

\* user 1, with no order of their own and none awaited, sent a photo with a
\* caption reference while user 2's order is the only one
C7_Witness ==
    /\ last = [handler |-> "photo_handler", user |-> 1]
    /\ reply = NotFoundOrNotYours
    /\ await_proof_order_id[1] = 0
    /\ Len(orders) = 1
    /\ orders[1].user_id = 2
    /\ orders[1].status = "WAITING_PAYMENT"

-----------------------------------------------------------------------------
(* Checkout stages *)

\* C8: while a session waits for the account info, only a text message (or going
\* back to the quantity panel, or a new purchase) takes it out of that sub-state,
\* and no order with an empty note is committed.
C8_AccountInfoRequired ==
    [][\A u \in Users :
         (await_account_info[u] /\ checkout[u] # None)
         => /\ (checkout'[u] # None /\ ~await_account_info'[u])
                  => last'.handler \in {"msg_text_handler", "cb_qty", "cb_buy"}
            /\ \A i \in NewOrders : orders'[i].note # ""]_vars

\* C9: no order is committed by the step that follows the quantity panel: the
\* quantity has not been confirmed and the voucher stage not resolved.
C9_NoOrderFromQuantityStage ==
    [][reply = "Atur jumlah:" => Len(orders') = Len(orders)]_vars

-----------------------------------------------------------------------------
(* Redemption and order creation as two transactions (SpecCrash) *)

\* SpecCrash: two shoppers redeem a voucher the admin added and never deletes;
\* a payment can stop between its two transactions
NextCrash ==
    \/ \E u \in Users : cb_buy(u, 1) /\ handled("cb_buy", u)
    \/ \E u \in Users : cb_voucher(u, "use_voucher") /\ handled("cb_voucher", u)
    \/ \E u \in Users : msg_text_handler(u, "hemat10") /\ handled("msg_text_handler", u)
    \/ \E u \in Users :
          /\ Len(orders) < MaxOrdersCrash
          /\ cb_pay(u, "DANA") /\ handled("cb_pay", u)
    \/ \E u \in Users, restart \in BOOLEAN :
          /\ Len(orders) < MaxOrdersCrash
          /\ cb_pay_fails(u, "DANA", restart) /\ handled("cb_pay", u)
    \/ \E u \in ADMIN_IDS :
          voucheradd_cmd(u, "hemat10", [type |-> "fixed", value |-> 30000,
                                        max_uses |-> 0, expires |-> 0])
          /\ handled("voucheradd_cmd", u)

SpecCrash == Init /\ [][NextCrash]_vars

OrdersWith(c) == {i \in DOMAIN orders : orders[i].voucher_code = c}

\* C11: redemption is atomic with order creation: in every reachable state,
\* whatever failed between the two writes, the used_count of a voucher equals the
\* number of committed orders that record its code (no order without its
\* increment, no increment without its order).
C11_RedemptionAtomicWithOrder ==
    \A c \in Codes :
        vouchers[c] # None => vouchers[c].used_count = Cardinality(OrdersWith(c))

-----------------------------------------------------------------------------
(* Conflicting decisions on one order (SpecOrders) *)

\* C12: when an approve and a reject for the same order are both delivered, one
\* after the other, the first one decides: the second finds the order already
\* decided, leaves every order as it is and notifies nobody.
C12_SecondConflictingDecisionIsNoOp ==
    [][\A u \in ADMIN_IDS, action \in {"adm_appr", "adm_rej"}, order_id \in DOMAIN orders :
         ( /\ last.handler = "cb_adm_action"
           /\ updated = order_id
           /\ orders[order_id].status \in {"PAID", "REJECTED"}
           /\ orders[order_id].status # new_status(action)
           /\ last'.handler = "cb_adm_action"
           /\ cb_adm_action(u, action, order_id) )
         => (orders' = orders /\ outbox' = {})]_vars

-----------------------------------------------------------------------------
(* Catalog and product selection while the admin edits the stock (SpecCatalog) *)

\* SpecCatalog: one shopper between the catalog and the two products, while the
\* admin reprices, hides and deletes products
NextCatalog ==
    \/ cb_cat(Shopper) /\ handled("cb_cat", Shopper)
    \/ \E pid \in Pids : cb_buy(Shopper, pid) /\ handled("cb_buy", Shopper)
    \/ /\ checkout[Shopper] # None => checkout[Shopper].qty < MaxQtyCatalog
       /\ cb_qty(Shopper, "qty_plus") /\ handled("cb_qty", Shopper)
    \/ cb_voucher(Shopper, "use_voucher") /\ handled("cb_voucher", Shopper)
    \/ msg_text_handler(Shopper, "hemat10") /\ handled("msg_text_handler", Shopper)
    \/ /\ Len(orders) < MaxOrdersCatalog
       /\ cb_pay(Shopper, "DANA") /\ handled("cb_pay", Shopper)
    \/ \E u \in ADMIN_IDS, price \in Prices :
          setprod_cmd(u, 1, price, -1) /\ handled("setprod_cmd", u)
    \/ \E u \in ADMIN_IDS, pid \in Pids :
          cb_adm_toggle(u, pid) /\ handled("cb_adm_toggle", u)
    \/ \E u \in ADMIN_IDS, v \in VoucherInputs :
          voucheradd_cmd(u, "hemat10", v) /\ handled("voucheradd_cmd", u)

SpecCatalog == Init /\ [][NextCatalog]_vars

\* C13: the 'cat' action, at whatever stage of the checkout, leaves its sender
\* with no session and no pending sub-stage marker, and changes no order and no
\* voucher.
C13_CatalogDropsSession ==
    [][\A u \in Users :
         (last'.handler = "cb_cat" /\ last'.user = u /\ cb_cat(u))
         => /\ checkout'[u] = None
            /\ ~await_voucher_code'[u]
            /\ ~await_account_info'[u]
            /\ orders' = orders
            /\ vouchers' = vouchers]_vars

\* C14: selecting an available product while a session exists overwrites it:
\* the session then holds that product at its current price with quantity 1, no
\* voucher, discount 0 and an empty note, and no sub-stage marker is pending.
C14_SelectionOverwritesSession ==
    [][\A u \in Users, pid \in Pids :
         ( /\ last'.handler = "cb_buy" /\ last'.user = u
           /\ checkout[u] # None
           /\ products[pid] # None /\ products[pid].active = 1
           /\ cb_buy(u, pid) )
         => /\ checkout'[u] = [pid |-> pid, price |-> products[pid].price, qty |-> 1,
                               voucher_code |-> "", discount |-> 0, note |-> ""]
            /\ ~await_voucher_code'[u]
            /\ ~await_account_info'[u]]_vars

\* the shopper has just selected product 1, at the price the admin set after the
\* stock was created
C14_Witness ==
    /\ last = [handler |-> "cb_buy", user |-> Shopper]
    /\ checkout[Shopper] # None
    /\ checkout[Shopper].pid = 1
    /\ checkout[Shopper].price = 30000
    /\ checkout[Shopper].qty = 1
    /\ checkout[Shopper].note = ""

-----------------------------------------------------------------------------
(* The quantity panel over its whole range (SpecQty) *)

\* SpecQty: the shopper dials the quantity up and down, all the way to the
\* ceiling, and commits
NextQty ==
    \/ /\ Len(orders) < MaxOrdersQty
       /\ cb_buy(Shopper, 1) /\ handled("cb_buy", Shopper)
    \/ \E data \in {"qty_plus", "qty_minus", "qty_done", "back_qty"} :
          cb_qty(Shopper, data) /\ handled("cb_qty", Shopper)
    \/ /\ Len(orders) < MaxOrdersQty
       /\ cb_pay(Shopper, "DANA") /\ handled("cb_pay", Shopper)

SpecQty == Init /\ [][NextQty]_vars

QtyRange == 1..99

\* C15: the session quantity is the fold of the presses from 1, each +1/-1
\* clamped to [1, 99]: a new session starts at 1, an increment gives
\* min(99, qty + 1), a decrement max(1, qty - 1); and in every reachable state the
\* session quantity and every committed order's quantity lie in [1, 99].
C15_QuantityFoldClamped ==
    /\ [](/\ \A u \in Users : checkout[u] # None => checkout[u].qty \in QtyRange
          /\ \A i \in DOMAIN orders : orders[i].qty \in QtyRange)
    /\ [][\A u \in Users :
            /\ (last'.handler = "cb_buy" /\ last'.user = u /\ checkout'[u] # None
                   /\ checkout'[u] # checkout[u])
                  => checkout'[u].qty = 1
            /\ (last'.handler = "cb_qty" /\ last'.user = u /\ checkout[u] # None)
                  => /\ cb_qty(u, "qty_plus")
                           => checkout'[u].qty =
                                 IF checkout[u].qty + 1 > 99 THEN 99
                                 ELSE checkout[u].qty + 1
                     /\ cb_qty(u, "qty_minus")
                           => checkout'[u].qty =
                                 IF checkout[u].qty - 1 < 1 THEN 1
                                 ELSE checkout[u].qty - 1]_vars

\* the shopper committed an order at the ceiling the panel stops at
C15_Witness ==
    /\ Len(orders) = 1
    /\ orders[1].qty = 99
    /\ orders[1].amount = 99 * 20000 + FEE_DANA

-----------------------------------------------------------------------------
(* Pricing with percent and fixed vouchers (SpecPrice) *)

PricesPrice == {19999}
VoucherInputsPrice ==
    {[type |-> "percent", value |-> 10, max_uses |-> 0, expires |-> 0],
     [type |-> "fixed", value |-> 30000, max_uses |-> 0, expires |-> 0]}

\* SpecPrice: the shopper takes a voucher and pays, over the prices and the
\* vouchers the admin sets
NextPrice ==
    \/ cb_buy(Shopper, 1) /\ handled("cb_buy", Shopper)
    \/ /\ checkout[Shopper] # None => checkout[Shopper].qty < MaxQtyPrice
       /\ cb_qty(Shopper, "qty_plus") /\ handled("cb_qty", Shopper)
    \/ cb_voucher(Shopper, "use_voucher") /\ handled("cb_voucher", Shopper)
    \/ msg_text_handler(Shopper, "hemat10") /\ handled("msg_text_handler", Shopper)
    \/ /\ Len(orders) < MaxOrdersPrice
       /\ cb_pay(Shopper, "DANA") /\ handled("cb_pay", Shopper)
    \/ \E u \in ADMIN_IDS, price \in PricesPrice :
          setprod_cmd(u, 1, price, -1) /\ handled("setprod_cmd", u)
    \/ \E u \in ADMIN_IDS, v \in VoucherInputsPrice :
          voucheradd_cmd(u, "hemat10", v) /\ handled("voucheradd_cmd", u)

SpecPrice == Init /\ [][NextPrice]_vars

\* the discount a voucher is worth on a subtotal: floor(s * p / 100) or min(s, v)
VoucherWorth(v, s) ==
    IF v.type = "percent" THEN (s * v.value) \div 100
    ELSE IF s <= v.value THEN s ELSE v.value

VoucherAccepted == "Voucher dipakai. Sekarang pilih metode pembayaran:"

\* C16: when the payment method is chosen right after the voucher was accepted
\* (the quantity not touched in between), the committed amount is
\* unit_price * qty - discount + fee(method), the discount being what the voucher
\* is worth on that subtotal, a percentage rounded down.
C16_CheckoutTotal ==
    [][\A u \in Users :
         ( /\ last = [handler |-> "msg_text_handler", user |-> u]
           /\ reply = VoucherAccepted
           /\ last' = [handler |-> "cb_pay", user |-> u]
           /\ checkout[u] # None /\ Len(orders') = Len(orders) + 1 )
         => LET ck == checkout[u]
                o == orders'[Len(orders')]
                s == ck.price * ck.qty
                d == VoucherWorth(vouchers[ck.voucher_code], s)
            IN /\ o.discount = d
               /\ o.payment_method = "DANA" => o.amount = s - d + FEE_DANA
               /\ o.payment_method = "BANK" => o.amount = s - d + FEE_BANK
               /\ o.payment_method = "QRIS" => o.amount = s - d + FEE_QRIS]_vars

\* unit price 20000, quantity 2, HEMAT10 at 10 percent, DANA: 40000 - 4000 + 200
C16_Witness ==
    /\ last = [handler |-> "cb_pay", user |-> Shopper]
    /\ Len(orders) = 1
    /\ orders[1].qty = 2
    /\ orders[1].voucher_code = "HEMAT10"
    /\ orders[1].payment_method = "DANA"
    /\ orders[1].discount = 4000
    /\ orders[1].fee = 200
    /\ orders[1].amount = 36200

\* SpecDiscount: the voucher stage alone, over more prices and vouchers, down
\* to a price of 0 and a voucher worth nothing
PricesDiscount == {0, 1, 19999}
VoucherInputsDiscount ==
    {[type |-> "percent", value |-> 1, max_uses |-> 0, expires |-> 0],
     [type |-> "percent", value |-> 10, max_uses |-> 0, expires |-> 0],
     [type |-> "percent", value |-> 100, max_uses |-> 0, expires |-> 0],
     [type |-> "fixed", value |-> 0, max_uses |-> 0, expires |-> 0],
     [type |-> "fixed", value |-> 30000, max_uses |-> 0, expires |-> 0]}

NextDiscount ==
    \/ cb_buy(Shopper, 1) /\ handled("cb_buy", Shopper)
    \/ /\ checkout[Shopper] # None => checkout[Shopper].qty < MaxQtyDiscount
       /\ cb_qty(Shopper, "qty_plus") /\ handled("cb_qty", Shopper)
    \/ cb_voucher(Shopper, "use_voucher") /\ handled("cb_voucher", Shopper)
    \/ msg_text_handler(Shopper, "hemat10") /\ handled("msg_text_handler", Shopper)
    \/ \E u \in ADMIN_IDS, price \in PricesDiscount :
          setprod_cmd(u, 1, price, -1) /\ handled("setprod_cmd", u)
    \/ \E u \in ADMIN_IDS, v \in VoucherInputsDiscount :
          voucheradd_cmd(u, "hemat10", v) /\ handled("voucheradd_cmd", u)

SpecDiscount == Init /\ [][NextDiscount]_vars

\* C18: on every subtotal s >= 0 a session can have and every voucher the table
\* can hold, the computed discount is floor(s * p / 100) for a percent voucher
\* (p in 1..100) and min(s, v) for a fixed one, and lies in [0, s].
C18_DiscountWithinSubtotal ==
    \A u \in Users, c \in Codes :
        (checkout[u] # None /\ vouchers[c] # None)
        => LET s == checkout[u].price * checkout[u].qty
               d == compute_discount(vouchers[c], s)
           IN /\ s >= 0
              /\ d = VoucherWorth(vouchers[c], s)
              /\ 0 <= d
              /\ d <= s

\* a 10 percent voucher was taken on a subtotal of 19999: 1999, rounded down
C18_Witness ==
    /\ last.handler = "msg_text_handler"
    /\ reply = VoucherAccepted
    /\ vouchers["HEMAT10"] # None
    /\ vouchers["HEMAT10"].type = "percent"
    /\ vouchers["HEMAT10"].value = 10
    /\ checkout[Shopper] # None
    /\ checkout[Shopper].price * checkout[Shopper].qty = 19999
    /\ checkout[Shopper].discount = 1999

-----------------------------------------------------------------------------
(* Voucher validation, rule by rule (SpecVoucher) *)

VoucherInputsVoucher ==
    {[type |-> "fixed", value |-> 30000, max_uses |-> 0, expires |-> 0],
     [type |-> "fixed", value |-> 30000, max_uses |-> 1, expires |-> 0],
     [type |-> "fixed", value |-> 30000, max_uses |-> 0, expires |-> 1],
     [type |-> "fixed", value |-> 30000, max_uses |-> 1, expires |-> 1],
     [type |-> "fixed", value |-> 0, max_uses |-> 0, expires |-> 0],
     [type |-> "fixed", value |-> 0, max_uses |-> 1, expires |-> 1]}

\* SpecVoucher: the shopper types codes, known and unknown, while the admin sets
\* quota and expiry and the days pass
NextVoucher ==
    \/ cb_buy(Shopper, 1) /\ handled("cb_buy", Shopper)
    \/ cb_voucher(Shopper, "use_voucher") /\ handled("cb_voucher", Shopper)
    \/ \E text \in {"hemat10", "bogus"} :
          msg_text_handler(Shopper, text) /\ handled("msg_text_handler", Shopper)
    \/ /\ Len(orders) < MaxOrdersVoucher
       /\ cb_pay(Shopper, "DANA") /\ handled("cb_pay", Shopper)
    \/ \E u \in ADMIN_IDS, v \in VoucherInputsVoucher :
          voucheradd_cmd(u, "hemat10", v) /\ handled("voucheradd_cmd", u)
    \/ \E u \in ADMIN_IDS : voucherdel_cmd(u, "hemat10") /\ handled("voucherdel_cmd", u)
    \/ day_passes /\ handled("", 0)

SpecVoucher == Init /\ [][NextVoucher]_vars

\* what is typed, and the code it is matched as
TypedCodes == {<<"hemat10", "HEMAT10">>, <<"bogus", "BOGUS">>}

\* C17: a typed code is validated rule by rule and the first failure is the
\* answer: unknown code (matched whatever its case) -> not found; else expiry set
\* and today > expiry -> expired; else max_uses > 0 and used_count >= max_uses ->
\* exhausted; else a discount of 0 or less -> not applicable; otherwise the code
\* is accepted with the computed discount.  Expired and exhausted: expired.
C17_ValidationRuleOrder ==
    [][\A u \in Users, tc \in TypedCodes :
         ( /\ last'.handler = "msg_text_handler" /\ last'.user = u
           /\ await_voucher_code[u] /\ ~await_account_info[u]
           /\ checkout[u] # None
           /\ msg_text_handler(u, tc[1]) )
         => LET code == tc[2]
                v == IF code \in DOMAIN vouchers THEN vouchers[code] ELSE None
                s == checkout[u].price * checkout[u].qty
            IN IF v = None
               THEN reply' = "Voucher tidak ditemukan." /\ checkout' = checkout
               ELSE IF v.expires # 0 /\ today > v.expires
               THEN reply' = "Voucher sudah expired." /\ checkout' = checkout
               ELSE IF v.max_uses > 0 /\ v.used_count >= v.max_uses
               THEN reply' = "Voucher sudah habis kuota." /\ checkout' = checkout
               ELSE IF VoucherWorth(v, s) <= 0
               THEN /\ reply' = "Voucher tidak berlaku untuk subtotal ini."
                    /\ checkout' = checkout
               ELSE /\ reply' = VoucherAccepted
                    /\ checkout'[u].voucher_code = code
                    /\ checkout'[u].discount = VoucherWorth(v, s)]_vars

\* a voucher past its expiry and out of quota was typed: the answer is "expired"
C17_Witness ==
    /\ last = [handler |-> "msg_text_handler", user |-> Shopper]
    /\ reply = "Voucher sudah expired."
    /\ vouchers["HEMAT10"] # None
    /\ vouchers["HEMAT10"].expires # 0
    /\ today > vouchers["HEMAT10"].expires
    /\ vouchers["HEMAT10"].max_uses > 0
    /\ vouchers["HEMAT10"].used_count >= vouchers["HEMAT10"].max_uses

-----------------------------------------------------------------------------
(* The total never falls below the fee (Spec) *)

\* C19: every committed order has amount >= fee, the fee being the one
\* configured for its payment method, whatever the session held at commit time.
C19_AmountAtLeastFee ==
    \A i \in DOMAIN orders :
        /\ orders[i].amount >= orders[i].fee
        /\ orders[i].payment_method = "DANA" => orders[i].amount >= FEE_DANA
        /\ orders[i].payment_method = "BANK" => orders[i].amount >= FEE_BANK
        /\ orders[i].payment_method = "QRIS" => orders[i].amount >= FEE_QRIS

\* an order committed with a discount of 30000 on one unit at 20000: the total
\* is the fee alone
C19_Witness ==
    /\ Len(orders) = 1
    /\ orders[1].qty = 1
    /\ orders[1].discount = 30000
    /\ orders[1].discount > 20000 * orders[1].qty
    /\ orders[1].amount = orders[1].fee

-----------------------------------------------------------------------------
(* Which order a proof photo is bound to (SpecProof) *)

\* the captions a photo comes with, each with the order reference it carries
\* (-1: none)
ProofCaptions ==
    {[caption |-> <<>>, ref |-> -1]}
        \cup {[caption |-> <<"#", digit_char(n)>>, ref |-> n] : n \in 0..MaxOrdersProof}

\* SpecProof: the shopper's orders and the photos sent for them, with and
\* without a caption reference, with and without an order awaited
NextProof ==
    \/ cb_buy(Shopper, 1) /\ handled("cb_buy", Shopper)
    \/ /\ Len(orders) < MaxOrdersProof
       /\ cb_pay(Shopper, "DANA") /\ handled("cb_pay", Shopper)
    \/ \E oid \in 1..MaxOrdersProof :
          confirm_cmd(Shopper, oid) /\ handled("confirm_cmd", Shopper)
    \/ \E c \in ProofCaptions :
          photo_handler(Shopper, "f1", c.caption) /\ handled("photo_handler", Shopper)

SpecProof == Init /\ [][NextProof]_vars

\* C20: a photo whose caption carries a reference #N is bound to order N,
\* whatever order the sender's session awaits a proof for: no other order is
\* touched, and order N, if it is the sender's, takes the proof.  The awaited
\* order is used only when the caption carries no reference.
C20_CaptionReferenceWins ==
    [][\A u \in Users, c \in ProofCaptions :
         ( /\ last'.handler = "photo_handler" /\ last'.user = u
           /\ photo_handler(u, "f1", c.caption) )
         => LET bound == IF c.ref # -1 THEN c.ref ELSE await_proof_order_id[u] IN
            /\ Len(orders') = Len(orders)
            /\ \A i \in DOMAIN orders : i # bound => orders'[i] = orders[i]
            /\ (bound \in DOMAIN orders /\ orders[bound].user_id = u)
                  => /\ orders'[bound].status = "PROOF_SUBMITTED"
                     /\ orders'[bound].proof_file_id = "f1"
                     /\ orders'[bound].proof_caption = c.caption]_vars

-----------------------------------------------------------------------------
(* Proofs sent again, for decided orders too (SpecResubmit) *)

Files == {"f1", "f2"}
CaptionsResubmit == {<<>>, <<"#", "1">>}

\* SpecResubmit: the shopper sends one photo after another for an order the
\* admin decides on in between
NextResubmit ==
    \/ cb_buy(Shopper, 1) /\ handled("cb_buy", Shopper)
    \/ /\ Len(orders) < MaxOrdersResubmit
       /\ cb_pay(Shopper, "DANA") /\ handled("cb_pay", Shopper)
    \/ \E u \in ADMIN_IDS, action \in AdminActions :
          cb_adm_action(u, action, 1) /\ handled("cb_adm_action", u)
    \/ \E file_id \in Files, caption \in CaptionsResubmit :
          photo_handler(Shopper, file_id, caption) /\ handled("photo_handler", Shopper)

SpecResubmit == Init /\ [][NextResubmit]_vars

\* C21: a photo the owner sends for an order puts it in PROOF_SUBMITTED whatever
\* its status was, and the order's proof reference and caption become those of
\* this photo.
C21_OwnerProofAlwaysTaken ==
    [][\A u \in Users, file_id \in Files, caption \in CaptionsResubmit :
         LET order_id == IF caption = <<>> THEN await_proof_order_id[u] ELSE 1 IN
         ( /\ last'.handler = "photo_handler" /\ last'.user = u
           /\ order_id \in DOMAIN orders
           /\ orders[order_id].user_id = u
           /\ photo_handler(u, file_id, caption) )
         => /\ orders'[order_id].status = "PROOF_SUBMITTED"
            /\ orders'[order_id].proof_file_id = file_id
            /\ orders'[order_id].proof_caption = caption]_vars

\* the order was marked done (the admin note still says so) and the owner's
\* later photo, the second file, put it back in PROOF_SUBMITTED
C21_Witness ==
    /\ last = [handler |-> "photo_handler", user |-> Shopper]
    /\ Len(orders) = 1
    /\ orders[1].admin_note = "Done"
    /\ orders[1].status = "PROOF_SUBMITTED"
    /\ orders[1].proof_file_id = "f2"
    /\ orders[1].proof_caption = <<"#", "1">>

-----------------------------------------------------------------------------
(* What stays of an order once it is created (SpecOrders) *)

\* C22: once an order exists, no step changes its owner, product, quantity,
\* amount, fee, discount, voucher code, payment method or note, and no order
\* disappears: proofs and decisions touch status, proof fields and admin note
\* only.
C22_OrderCoreImmutable ==
    [][\A i \in DOMAIN orders :
         /\ i \in DOMAIN orders'
         /\ orders'[i].user_id = orders[i].user_id
         /\ orders'[i].product_id = orders[i].product_id
         /\ orders'[i].qty = orders[i].qty
         /\ orders'[i].amount = orders[i].amount
         /\ orders'[i].fee = orders[i].fee
         /\ orders'[i].discount = orders[i].discount
         /\ orders'[i].voucher_code = orders[i].voucher_code
         /\ orders'[i].payment_method = orders[i].payment_method
         /\ orders'[i].note = orders[i].note]_vars

\* an order that went through a proof and the admin's decisions, as committed
C22_Witness ==
    /\ Len(orders) = 1
    /\ orders[1].status = "DONE"
    /\ orders[1].admin_note = "Done"
    /\ orders[1].proof_file_id = "f1"
    /\ orders[1].proof_caption = <<"#", "1">>
    /\ orders[1].qty = 1
    /\ orders[1].amount = 20000 + FEE_DANA
    /\ orders[1].note = ""

-----------------------------------------------------------------------------
(* The price a session and an order carry (SpecSnapshot) *)

\* SpecSnapshot: the shopper's session and order on product 1 while the admin
\* reprices, hides and deletes the product
NextSnapshot ==
    \/ cb_buy(Shopper, 1) /\ handled("cb_buy", Shopper)
    \/ /\ checkout[Shopper] # None => checkout[Shopper].qty < MaxQtySnapshot
       /\ cb_qty(Shopper, "qty_plus") /\ handled("cb_qty", Shopper)
    \/ /\ Len(orders) < MaxOrdersSnapshot
       /\ cb_pay(Shopper, "DANA") /\ handled("cb_pay", Shopper)
    \/ \E u \in ADMIN_IDS, active \in {-1, 0} :
          setprod_cmd(u, 1, 30000, active) /\ handled("setprod_cmd", u)
    \/ \E u \in ADMIN_IDS : cb_adm_toggle(u, 1) /\ handled("cb_adm_toggle", u)
    \/ \E u \in ADMIN_IDS : delprod_cmd(u, 1) /\ handled("delprod_cmd", u)

SpecSnapshot == Init /\ [][NextSnapshot]_vars

\* C23: the unit price is taken into the session at selection and into the
\* order's amount at commit: a price change, deactivation or deletion of the
\* product changes no session and no order; a session's unit price changes only
\* by a new selection; the amount committed is computed from the session's price.
C23_PriceSnapshot ==
    [][/\ last'.handler \in {"setprod_cmd", "cb_adm_toggle", "delprod_cmd"}
             => (checkout' = checkout /\ orders' = orders)
       /\ \A u \in Users :
             /\ (checkout[u] # None /\ checkout'[u] # None /\ last'.handler # "cb_buy")
                   => checkout'[u].price = checkout[u].price
             /\ (last' = [handler |-> "cb_pay", user |-> u] /\ checkout[u] # None)
                   => orders'[Len(orders')].amount =
                         checkout[u].price * checkout[u].qty - checkout[u].discount
                            + orders'[Len(orders')].fee]_vars

\* the product was repriced and then deleted: the order committed before keeps
\* its amount and the open session its unit price
C23_Witness ==
    /\ last.handler = "delprod_cmd"
    /\ products[1] = None
    /\ checkout[Shopper] # None
    /\ checkout[Shopper].price = 20000
    /\ Len(orders) = 1
    /\ orders[1].amount = 20000 + FEE_DANA

-----------------------------------------------------------------------------
(* What a reply tells about other users' orders (SpecLeak) *)

OrderIdsLeak == 1..(MaxOrdersLeak + 1)
CaptionsLeak == {<<"#", digit_char(n)>> : n \in OrderIdsLeak}

\* SpecLeak: either user orders, the admin decides, and both users name order
\* ids in /confirm, /testi and photo captions
NextLeak ==
    \/ \E u \in Users : cb_buy(u, 1) /\ handled("cb_buy", u)
    \/ \E u \in Users :
          /\ Len(orders) < MaxOrdersLeak
          /\ cb_pay(u, "DANA") /\ handled("cb_pay", u)
    \/ \E u \in ADMIN_IDS, order_id \in OrderIdsLeak :
          cb_adm_action(u, "adm_appr", order_id) /\ handled("cb_adm_action", u)
    \/ \E u \in ADMIN_IDS : delprod_cmd(u, 1) /\ handled("delprod_cmd", u)
    \/ \E u \in Users, caption \in CaptionsLeak :
          photo_handler(u, "f1", caption) /\ handled("photo_handler", u)
    \/ \E u \in Users, oid \in OrderIdsLeak :
          confirm_cmd(u, oid) /\ handled("confirm_cmd", u)
    \/ \E u \in Users, oid \in OrderIdsLeak :
          testi_cmd(u, oid) /\ handled("testi_cmd", u)

SpecLeak == Init /\ [][NextLeak]_vars

NoSuchOrder == Len(orders) + 1

OrdersOfOthers(u) == {i \in DOMAIN orders : orders[i].user_id # u}

\* C24: a user who is not an admin gets, for /confirm, a proof photo or /testi
\* naming another user's order, the very reply the same request gets when it
\* names an order that does not exist.
C24_ForeignOrderLooksAbsent ==
    [][\A u \in Users \ ADMIN_IDS :
         \A oid \in OrdersOfOthers(u) \cup {NoSuchOrder} :
            /\ (last' = [handler |-> "confirm_cmd", user |-> u] /\ confirm_cmd(u, oid))
                  => reply' = NotFoundOrNotYours
            /\ ( /\ last' = [handler |-> "photo_handler", user |-> u]
                 /\ photo_handler(u, "f1", <<"#", digit_char(oid)>>) )
                  => reply' = NotFoundOrNotYours
            /\ (last' = [handler |-> "testi_cmd", user |-> u] /\ testi_cmd(u, oid))
                  => reply' = testi_reply(u, NoSuchOrder)]_vars

-----------------------------------------------------------------------------
(* Who may decide an order (SpecOrders) *)

Decided == {"PAID", "REJECTED", "DONE"}

\* C25: an approve, reject or mark-done action of a user outside the admin set
\* changes no order and sends no notification, and an order's status becomes
\* PAID, REJECTED or DONE only in an admin's decision step.
C25_OnlyAdminDecides ==
    [][/\ (last'.handler = "cb_adm_action" /\ last'.user \notin ADMIN_IDS)
             => (orders' = orders /\ outbox' = {} /\ updated' = 0)
       /\ \A i \in DOMAIN orders' :
             ( /\ orders'[i].status \in Decided
               /\ (i \notin DOMAIN orders \/ orders[i].status # orders'[i].status) )
             => (last'.handler = "cb_adm_action" /\ last'.user \in ADMIN_IDS)]_vars

\* a user who is no admin has pressed a decision button on an order whose proof
\* is in: the order is still waiting for the admin
C25_Witness ==
    /\ last.handler = "cb_adm_action"
    /\ last.user \notin ADMIN_IDS
    /\ Len(orders) = 1
    /\ orders[1].status = "PROOF_SUBMITTED"
    /\ orders[1].admin_note = ""
    /\ outbox = {}

-----------------------------------------------------------------------------
(* A refused voucher code keeps the voucher stage (SpecVoucher) *)

VoucherRefused ==
    {"Voucher tidak ditemukan.", "Voucher sudah expired.",
     "Voucher sudah habis kuota.", "Voucher tidak berlaku untuk subtotal ini."}

\* C26: a code typed in the voucher stage is either refused, and then the
\* awaiting-voucher marker stays set, the session (voucher code, discount,
\* quantity, note) is as it was and no order and no voucher row changes; or it
\* is accepted, and then the session holds the code and the discount it is worth
\* on the subtotal, nothing else of the session changes and the marker is cleared.
C26_RefusedCodeKeepsStage ==
    [][\A u \in Users :
         ( /\ last' = [handler |-> "msg_text_handler", user |-> u]
           /\ await_voucher_code[u] /\ ~await_account_info[u]
           /\ checkout[u] # None )
         => /\ orders' = orders /\ vouchers' = vouchers
            /\ IF reply' \in VoucherRefused
               THEN /\ await_voucher_code'[u]
                    /\ checkout' = checkout
               ELSE /\ reply' = VoucherAccepted
                    /\ ~await_voucher_code'[u]
                    /\ vouchers["HEMAT10"] # None
                    /\ checkout' = [checkout EXCEPT
                          ![u].voucher_code = "HEMAT10",
                          ![u].discount = VoucherWorth(vouchers["HEMAT10"],
                                             checkout[u].price * checkout[u].qty)]]_vars

\* the session already held an accepted code when the shopper re-entered the
\* voucher stage and typed an unknown one: the stage and the session stand
C26_Witness ==
    /\ last = [handler |-> "msg_text_handler", user |-> Shopper]
    /\ reply = "Voucher tidak ditemukan."
    /\ await_voucher_code[Shopper]
    /\ checkout[Shopper] # None
    /\ checkout[Shopper].voucher_code = "HEMAT10"
    /\ checkout[Shopper].discount > 0

-----------------------------------------------------------------------------
(* What leaves a session and a waiting order alone (SpecIdle) *)

\* SpecIdle: the shopper's session and order while menus are browsed, commands
\* sent, photos uploaded, the admin acts, product 2 goes out of sale and the
\* days pass
NextIdle ==
    \/ \E pid \in Pids : cb_buy(Shopper, pid) /\ handled("cb_buy", Shopper)
    \/ /\ checkout[Shopper] # None => checkout[Shopper].qty < MaxQtyIdle
       /\ cb_qty(Shopper, "qty_plus") /\ handled("cb_qty", Shopper)
    \/ cb_cat(Shopper) /\ handled("cb_cat", Shopper)
    \/ /\ Len(orders) < MaxOrdersIdle
       /\ cb_pay(Shopper, "DANA") /\ handled("cb_pay", Shopper)
    \/ cb_noop(Shopper) /\ handled("cb_noop", Shopper)
    \/ cb_home(Shopper) /\ handled("cb_home", Shopper)
    \/ cb_my(Shopper) /\ handled("cb_my", Shopper)
    \/ start_cmd(Shopper) /\ handled("start_cmd", Shopper)
    \/ confirm_cmd(Shopper, 1) /\ handled("confirm_cmd", Shopper)
    \/ photo_handler(Shopper, "f1", <<>>) /\ handled("photo_handler", Shopper)
    \/ \E u \in ADMIN_IDS :
          cb_adm_action(u, "adm_appr", 1) /\ handled("cb_adm_action", u)
    \/ \E u \in ADMIN_IDS : cb_adm_toggle(u, 2) /\ handled("cb_adm_toggle", u)
    \/ day_passes /\ handled("", 0)

SpecIdle == Init /\ [][NextIdle]_vars

Unrelated ==
    {"", "cb_noop", "cb_home", "cb_my", "start_cmd", "confirm_cmd",
     "photo_handler", "cb_adm_action", "cb_adm_toggle"}

\* C27: the passing of a day, noop, home, my orders, /start, /confirm, a photo,
\* an admin's action and the selection of a product that is not on sale leave
\* every checkout session as it was.  A session is removed only by its user's
\* catalog re-entry or payment choice, its product and unit price change only by
\* its user's new selection, its quantity only by that or by a quantity button.
\* An order in WAITING_PAYMENT leaves that status only in a proof upload or an
\* admin decision.
C27_SessionPersists ==
    [][/\ last'.handler \in Unrelated => checkout' = checkout
       /\ (last'.handler = "cb_buy" /\ reply' = "Produk tidak tersedia.")
             => checkout' = checkout
       /\ \A u \in Users :
             checkout[u] # None =>
                IF checkout'[u] = None
                THEN last' \in {[handler |-> "cb_cat", user |-> u],
                                [handler |-> "cb_pay", user |-> u]}
                ELSE /\ ( \/ checkout'[u].pid # checkout[u].pid
                          \/ checkout'[u].price # checkout[u].price )
                           => last' = [handler |-> "cb_buy", user |-> u]
                     /\ checkout'[u].qty # checkout[u].qty
                           => last' \in {[handler |-> "cb_buy", user |-> u],
                                         [handler |-> "cb_qty", user |-> u]}
       /\ \A i \in DOMAIN orders :
             ( /\ orders[i].status = "WAITING_PAYMENT"
               /\ orders'[i].status # "WAITING_PAYMENT" )
             => last'.handler \in {"photo_handler", "cb_adm_action"}]_vars

\* days after the selection, with product 2 taken out of sale and /start sent,
\* the session on product 2 still holds its price and quantity and the order
\* still waits for payment
C27_Witness ==
    /\ last = [handler |-> "start_cmd", user |-> Shopper]
    /\ today = MaxDay
    /\ products[2].active = 0
    /\ checkout[Shopper] # None
    /\ checkout[Shopper].pid = 2
    /\ checkout[Shopper].price = 20000
    /\ checkout[Shopper].qty = MaxQtyIdle
    /\ Len(orders) = 1
    /\ orders[1].status = "WAITING_PAYMENT"

-----------------------------------------------------------------------------
(* The gateway lane: PAYMENT_CREATED -> PAID | EXPIRED (SpecGateway) *)

\* The gateway lane is not part of src/app.py, which holds the manual-proof
\* variant only.  The three definitions below follow spec.md, sections 4.3 to
\* 4.5: an order of the gateway lane is committed like any other (pricing,
\* voucher redemption, the session destroyed) and waits in PAYMENT_CREATED; the
\* gateway names it by its reference token; a success code moves a pending order
\* to PAID and its owner is told, an expiry code moves it to EXPIRED, any other
\* code and any code for an order that is no longer pending changes nothing.

\* the externally shared handle of an order: it embeds the owner and the order id
reference_token(order_id) == <<orders[order_id].user_id, order_id>>

create_gateway_order(u, method) ==
    LET ck == checkout[u]
        fee == fee_for_method(method)
        subtotal == ck.price * ck.qty
        discount == ck.discount
        voucher_code == upper(ck.voucher_code)
        total == Max(0, subtotal - discount) + fee
    IN
    IF ck = None
    THEN /\ reply' = "Session checkout hilang. Balik ke katalog."
         /\ outbox' = {} /\ updated' = 0
         /\ UNCHANGED <<db, user_data, today>>
    ELSE /\ orders' = Append(orders,
                [user_id |-> u, product_id |-> ck.pid, qty |-> ck.qty,
                 amount |-> total, note |-> ck.note, status |-> "PAYMENT_CREATED",
                 payment_method |-> method, fee |-> fee, discount |-> discount,
                 voucher_code |-> voucher_code, proof_file_id |-> "",
                 proof_caption |-> <<>>, admin_note |-> ""])
         /\ vouchers' = IF voucher_code # "" THEN increment_voucher_use(voucher_code)
                        ELSE vouchers
         /\ checkout' = [checkout EXCEPT ![u] = None]
         /\ await_voucher_code' = [await_voucher_code EXCEPT ![u] = FALSE]
         /\ await_account_info' = [await_account_info EXCEPT ![u] = FALSE]
         /\ reply' = "Silakan lakukan pembayaran:"
         /\ outbox' = {} /\ updated' = 0
         /\ UNCHANGED <<products, await_proof_order_id, today>>

\* a callback handling that tells the owner again on every success callback
apply_gateway_event_renotifies(token, code) ==
    LET found == {i \in DOMAIN orders : reference_token(i) = token} IN
    IF found = {}
    THEN /\ reply' = "NotFound"
         /\ outbox' = {} /\ updated' = 0
         /\ UNCHANGED <<db, user_data, today>>
    ELSE LET order_id == CHOOSE i \in found : TRUE
             pending == orders[order_id].status \in {"PENDING", "PAYMENT_CREATED"}
             user_msg == [to |-> orders[order_id].user_id, text |-> "PAID",
                          order |-> order_id]
         IN
         /\ reply' = "ok"
         /\ UNCHANGED <<products, vouchers, user_data, today>>
         /\ IF pending /\ code = "success"
            THEN /\ orders' = [orders EXCEPT ![order_id].status = "PAID"]
                 /\ updated' = order_id
                 /\ \E sent \in SUBSET {user_msg} : outbox' = sent
            ELSE IF pending /\ code = "expired"
            THEN /\ orders' = [orders EXCEPT ![order_id].status = "EXPIRED"]
                 /\ updated' = order_id
                 /\ outbox' = {}
            ELSE /\ orders' = orders /\ updated' = 0
                 /\ outbox' = IF code = "success" THEN {user_msg} ELSE {}

apply_gateway_event(token, code) ==
    LET found == {i \in DOMAIN orders : reference_token(i) = token} IN
    IF found = {}
    THEN /\ reply' = "NotFound"
         /\ outbox' = {} /\ updated' = 0
         /\ UNCHANGED <<db, user_data, today>>
    ELSE LET order_id == CHOOSE i \in found : TRUE
             pending == orders[order_id].status \in {"PENDING", "PAYMENT_CREATED"}
             user_msg == [to |-> orders[order_id].user_id, text |-> "PAID",
                          order |-> order_id]
         IN
         /\ reply' = "ok"
         /\ UNCHANGED <<products, vouchers, user_data, today>>
         /\ IF pending /\ code = "success"
            THEN /\ orders' = [orders EXCEPT ![order_id].status = "PAID"]
                 /\ updated' = order_id
                 \* notifications are best effort
                 /\ \E sent \in SUBSET {user_msg} : outbox' = sent
            ELSE IF pending /\ code = "expired"
            THEN /\ orders' = [orders EXCEPT ![order_id].status = "EXPIRED"]
                 /\ updated' = order_id
                 /\ outbox' = {}
            ELSE /\ orders' = orders /\ updated' = 0 /\ outbox' = {}

Tokens == {<<u, i>> : u \in Users, i \in 1..MaxOrdersGateway}
GatewayCodes == {"success", "expired", "pending"}

\* SpecGateway: the shopper checks out with or without the voucher, the order
\* waits for the gateway, and callbacks arrive in any number and order
NextGateway ==
    \/ \E u \in ADMIN_IDS, v \in VoucherInputs :
          /\ vouchers["HEMAT10"] = None
          /\ voucheradd_cmd(u, "hemat10", v) /\ handled("voucheradd_cmd", u)
    \/ cb_buy(Shopper, 1) /\ handled("cb_buy", Shopper)
    \/ /\ checkout[Shopper] # None => checkout[Shopper].qty < MaxQtyGateway
       /\ cb_qty(Shopper, "qty_plus") /\ handled("cb_qty", Shopper)
    \/ cb_voucher(Shopper, "use_voucher") /\ handled("cb_voucher", Shopper)
    \/ msg_text_handler(Shopper, "hemat10") /\ handled("msg_text_handler", Shopper)
    \/ /\ Len(orders) < MaxOrdersGateway
       /\ create_gateway_order(Shopper, "QRIS")
       /\ handled("create_gateway_order", Shopper)
    \/ \E token \in Tokens, code \in GatewayCodes :
          apply_gateway_event(token, code) /\ handled("apply_gateway_event", 0)

SpecGateway == Init /\ [][NextGateway]_vars

\* C28: a gateway success callback for an order waiting in PAYMENT_CREATED makes
\* it PAID and redeems nothing; the same callback once more, the order being
\* PAID, leaves every order as it is, sends no notification and redeems nothing.
C28_SuccessCallbackTwice ==
    [][\A token \in Tokens :
         ( /\ last'.handler = "apply_gateway_event"
           /\ \E i \in DOMAIN orders : reference_token(i) = token
           /\ apply_gateway_event(token, "success") )
         => LET i == CHOOSE i \in DOMAIN orders : reference_token(i) = token IN
            /\ vouchers' = vouchers
            /\ orders[i].status = "PAYMENT_CREATED"
                  => (orders'[i].status = "PAID" /\ outbox' \subseteq
                         {[to |-> orders[i].user_id, text |-> "PAID", order |-> i]})
            /\ orders[i].status = "PAID"
                  => (orders' = orders /\ outbox' = {} /\ updated' = 0)]_vars

\* the second success callback has come in for an order paid with the voucher:
\* the order is PAID, nothing was written or sent, the voucher was used once
C28_Witness ==
    /\ last.handler = "apply_gateway_event"
    /\ Len(orders) = 1
    /\ orders[1].status = "PAID"
    /\ orders[1].voucher_code = "HEMAT10"
    /\ updated = 0
    /\ outbox = {}
    /\ reply = "ok"
    /\ vouchers["HEMAT10"].used_count = 1

-----------------------------------------------------------------------------
(* One order per session (SpecCrash) *)

\* C29: a checkout session yields at most one order and one redemption: the step
\* that commits a user's order leaves that user without a session, so that a
\* second payment-method selection finds none, and a payment-method selection
\* that finds no session creates no order and increments no used_count.
C29_OneOrderPerSession ==
    [][\A u \in Users :
         /\ (Len(orders') > Len(orders) /\ orders'[Len(orders')].user_id = u)
               => checkout'[u] = None
         /\ (last' = [handler |-> "cb_pay", user |-> u] /\ checkout[u] = None)
               => (orders' = orders /\ vouchers' = vouchers)]_vars

-----------------------------------------------------------------------------
(* The discount an order records (Spec) *)

\* C30: an order committed with voucher code V, V's row being there at commit,
\* records the discount V is worth on the order's own subtotal, unit price times
\* committed quantity, whatever quantity the code was accepted for.
C30_DiscountOfCommittedSubtotal ==
    [][\A i \in NewOrders :
         LET o == orders'[i]
             ck == checkout[o.user_id]
         IN (o.voucher_code \in Codes /\ vouchers[o.voucher_code] # None)
            => o.discount = VoucherWorth(vouchers[o.voucher_code], ck.price * o.qty)]_vars

-----------------------------------------------------------------------------
(* Markers and their session (Spec) *)

\* C31: in every reachable state a user's awaiting-account-info or
\* awaiting-voucher-code marker is set only while that user has a checkout
\* session, so the text handler never finds a marker without a session.
C31_MarkerOnlyWithSession ==
    \A u \in Users :
        (await_account_info[u] \/ await_voucher_code[u]) => checkout[u] # None

\* an order was committed, which dropped the session and both markers; a
\* product was chosen again and the quantity confirmed: the account-info marker
\* stands with the new session
C31_Witness ==
    /\ last = [handler |-> "cb_qty", user |-> Shopper]
    /\ await_account_info[Shopper]
    /\ ~await_voucher_code[Shopper]
    /\ checkout[Shopper] # None
    /\ Len(orders) = 1

-----------------------------------------------------------------------------
(* The statuses an order takes (SpecOrders) *)

Statuses == {"WAITING_PAYMENT", "PROOF_SUBMITTED", "PAID", "REJECTED", "DONE"}

\* C32: in every reachable state each order's status is one of WAITING_PAYMENT,
\* PROOF_SUBMITTED, PAID, REJECTED, DONE, and no step takes an order whose
\* status is not WAITING_PAYMENT back to WAITING_PAYMENT.
C32_StatusesAndNoReturn ==
    /\ [](\A i \in DOMAIN orders : orders[i].status \in Statuses)
    /\ [][\A i \in DOMAIN orders :
            orders[i].status # "WAITING_PAYMENT"
               => (i \in DOMAIN orders' /\ orders'[i].status # "WAITING_PAYMENT")]_vars

\* the order was rejected and its owner then sent a proof again: it is
\* PROOF_SUBMITTED, not waiting for payment
C32_Witness ==
    /\ Len(orders) = 1
    /\ orders[1].status = "PROOF_SUBMITTED"
    /\ orders[1].admin_note = "Rejected"
    /\ last.handler = "photo_handler"

-----------------------------------------------------------------------------
(* Notifications that fail (SpecNotify) *)

CaptionsNotify == {<<>>} \cup {<<"#", digit_char(n)>> : n \in 1..MaxOrdersNotify}

\* SpecNotify: the shopper's orders, proofs and the admin's decisions, every
\* outbound message delivered or not, the product deleted at some point
NextNotify ==
    \/ cb_buy(Shopper, 1) /\ handled("cb_buy", Shopper)
    \/ /\ Len(orders) < MaxOrdersNotify
       /\ cb_pay(Shopper, "DANA") /\ handled("cb_pay", Shopper)
    \/ \E caption \in CaptionsNotify :
          photo_handler(Shopper, "f1", caption) /\ handled("photo_handler", Shopper)
    \/ \E u \in ADMIN_IDS, action \in AdminActions, order_id \in 1..MaxOrdersNotify :
          cb_adm_action(u, action, order_id) /\ handled("cb_adm_action", u)
    \/ \E u \in ADMIN_IDS : delprod_cmd(u, 1) /\ handled("delprod_cmd", u)

SpecNotify == Init /\ [][NextNotify]_vars

\* C33: a notification that fails neither reverts nor blocks the state change.
\* When an admin's decision on an existing order cannot be delivered to the
\* owner, the order still has the new status and admin note and the admin gets
\* the closing reply; when a proof of the owner is forwarded to no admin, or not
\* to all, the order still records the proof with status PROOF_SUBMITTED and the
\* owner gets the acknowledgement.
C33_FailedNotificationKeepsWrite ==
    [][/\ \A u \in ADMIN_IDS, action \in AdminActions, order_id \in DOMAIN orders :
            ( /\ last' = [handler |-> "cb_adm_action", user |-> u]
              /\ order_with_product(order_id) # None
              /\ [to |-> orders[order_id].user_id, text |-> new_status(action),
                  order |-> order_id] \notin outbox'
              /\ cb_adm_action(u, action, order_id) )
            => /\ orders'[order_id].status = new_status(action)
               /\ orders'[order_id].admin_note = admin_note(action)
               /\ updated' = order_id
               /\ reply' = "OK. Order => status"
       /\ \A u \in Users, caption \in CaptionsNotify :
            LET order_id == proof_order_id(u, caption) IN
            ( /\ last' = [handler |-> "photo_handler", user |-> u]
              /\ order_id # 0
              /\ own_order(order_id, u) # None
              /\ \E adm \in ADMIN_IDS :
                    [to |-> adm, text |-> "Bukti Bayar Masuk", order |-> order_id]
                       \notin outbox'
              /\ photo_handler(u, "f1", caption) )
            => /\ orders'[order_id].status = "PROOF_SUBMITTED"
               /\ orders'[order_id].proof_file_id = "f1"
               /\ updated' = order_id
               /\ reply' = "OK. Bukti sudah masuk. Tunggu admin verifikasi."]_vars

\* the admin approved an order with a proof and the message to its owner
\* failed: the order is PAID and the admin has the closing reply
C33_Witness ==
    /\ last.handler = "cb_adm_action"
    /\ updated = 1
    /\ outbox = {}
    /\ reply = "OK. Order => status"
    /\ orders[1].status = "PAID"
    /\ orders[1].admin_note = "Approved"
    /\ orders[1].proof_file_id = "f1"

-----------------------------------------------------------------------------
(* The order a user's next proof goes to (SpecOrders) *)

\* C34: whenever a user's awaiting-proof order id is set it names an order of
\* that user; a photo leaves it as it is, and a photo without an order reference
\* that is taken as a proof goes to the order it names.
C34_AwaitedOrderIsOwn ==
    /\ [](\A u \in Users :
            await_proof_order_id[u] # 0
               => /\ await_proof_order_id[u] \in DOMAIN orders
                  /\ orders[await_proof_order_id[u]].user_id = u)
    /\ [][\A u \in Users :
            last' = [handler |-> "photo_handler", user |-> u]
               => /\ await_proof_order_id' = await_proof_order_id
                  /\ (updated' # 0 /\ orders'[updated'].proof_caption = <<>>)
                        => updated' = await_proof_order_id[u]]_vars

\* the shopper's order was rejected and a photo without caption was then taken
\* for it: the awaited order is still the shopper's order 1
C34_Witness ==
    /\ last = [handler |-> "photo_handler", user |-> Shopper]
    /\ updated = 1
    /\ await_proof_order_id[Shopper] = 1
    /\ orders[1].user_id = Shopper
    /\ orders[1].status = "PROOF_SUBMITTED"
    /\ orders[1].proof_caption = <<>>
    /\ orders[1].admin_note = "Rejected"

-----------------------------------------------------------------------------
(* Products and orders that are not there (SpecMissing) *)

OrderIdsMissing == 1..(MaxOrdersMissing + 1)

\* SpecMissing: the shopper selects products the admin hides and deletes, with a
\* session and the voucher marker standing or not; the admin decides orders
\* that exist and orders that do not
NextMissing ==
    \/ \E pid \in Pids : cb_buy(Shopper, pid) /\ handled("cb_buy", Shopper)
    \/ cb_voucher(Shopper, "use_voucher") /\ handled("cb_voucher", Shopper)
    \/ /\ Len(orders) < MaxOrdersMissing
       /\ cb_pay(Shopper, "DANA") /\ handled("cb_pay", Shopper)
    \/ \E u \in ADMIN_IDS : cb_adm_toggle(u, 1) /\ handled("cb_adm_toggle", u)
    \/ \E u \in ADMIN_IDS : delprod_cmd(u, 2) /\ handled("delprod_cmd", u)
    \/ \E u \in ADMIN_IDS, action \in {"adm_appr", "adm_rej"},
          order_id \in OrderIdsMissing :
          cb_adm_action(u, action, order_id) /\ handled("cb_adm_action", u)

SpecMissing == Init /\ [][NextMissing]_vars

\* C35: the selection of a product that is inactive or does not exist is
\* answered and changes nothing: no session is created, an existing session and
\* the markers stay as they are; an admin decision that names an order that does
\* not exist changes no order and sends no notification.
C35_MissingTargetAborts ==
    [][/\ \A u \in Users, pid \in Pids :
            ( /\ last' = [handler |-> "cb_buy", user |-> u]
              /\ (products[pid] = None \/ products[pid].active # 1)
              /\ cb_buy(u, pid) )
            => /\ checkout' = checkout
               /\ await_voucher_code' = await_voucher_code
               /\ await_account_info' = await_account_info
               /\ orders' = orders
               /\ reply' = "Produk tidak tersedia."
       /\ \A u \in ADMIN_IDS, action \in AdminActions :
            \A order_id \in OrderIdsMissing \ DOMAIN orders :
               ( /\ last' = [handler |-> "cb_adm_action", user |-> u]
                 /\ cb_adm_action(u, action, order_id) )
               => /\ orders' = orders
                  /\ outbox' = {} /\ updated' = 0
                  /\ reply' = "Order tidak ditemukan."]_vars

\* in the voucher stage of a session on product 1 the shopper pressed the
\* button of the deleted product 2: session and marker stand
C35_Witness ==
    /\ last = [handler |-> "cb_buy", user |-> Shopper]
    /\ reply = "Produk tidak tersedia."
    /\ products[2] = None
    /\ checkout[Shopper] # None
    /\ checkout[Shopper].pid = 1
    /\ await_voucher_code[Shopper]

====
